---- MODULE Spec2Model ----
(***************************************************************************)
(* Shipping charge estimator: transport strategy selection, charge         *)
(* composition, the in-memory TTL cache and the shipping service that      *)
(* ties them together.                                                     *)
(*                                                                         *)
(* Units.  The code computes with IEEE doubles; the model computes with    *)
(* exact integers in units fine enough for every rounding of the code to   *)
(* be a real rounding:                                                     *)
(*   distance   metres              (1 km  = 1000)                         *)
(*   weight     hectograms          (1 kg  = 10)                           *)
(*   money      1/10000 Rs          (1 Rs  = 10000) before rounding,       *)
(*              paise (1/100 Rs)    after Math.round(x * 100) / 100        *)
(*   base_charge      paise         (DECIMAL(10,2) column)                 *)
(*   extra_charge_per_kg  1/1000 Rs per kg                                 *)
(*   time       milliseconds                                               *)
(***************************************************************************)
EXTENDS Integers, Sequences, FiniteSets, TLC

VARIABLES
    pricingIn,      \* inputs of one charge computation (pure-function harness)
    pricingOut,     \* its outcome
    cache,          \* CacheManager.cache : Map<string, CacheEntry>
    hits,           \* CacheManager.hits
    misses,         \* CacheManager.misses
    now,            \* Date.now()
    calls,          \* in-flight getOrSet calls
    microtasks,     \* promise reactions queued and not yet run (FIFO)
    resolved,       \* history: getOrSet calls in the order their factory resolved
    stored,         \* history: the last set of each key not explicitly deleted since
    obs,            \* history: what the last cache operation did
    warehouses,     \* store: rows of the warehouses table, in query order
    reqs,           \* in-flight ShippingService calls
    callCount,      \* ShippingService calls started so far
    ret             \* history: the call that returned in the last step

vars == <<pricingIn, pricingOut, cache, hits, misses, now, calls, microtasks,
          resolved, stored, obs, warehouses, reqs, callCount, ret>>

pricingVars == <<pricingIn, pricingOut>>
cacheVars   == <<cache, hits, misses, now>>
asyncVars   == <<calls, microtasks, resolved>>
histVars    == <<stored, obs>>
serviceVars == <<warehouses, reqs, callCount, ret>>

----------------------------------------------------------------------------
(* Unit helpers *)

Km(x)     == x * 1000
Kg(x)     == x * 10
Rupees(x) == x * 10000
Paise(x)  == x * 100

Abs(x) == IF x < 0 THEN -x ELSE x

\* Math.round(x * 100) / 100 on an amount in 1/10000 Rs, result in paise.
\* Math.round rounds half towards +Infinity: floor(y + 0.5).
Round2(x) == (x + 50) \div 100

\* Math.round(d * 100) / 100 on a distance in metres, result in 1/100 km.
RoundKm2(d) == (d + 5) \div 10

----------------------------------------------------------------------------
(* transport-strategy.ts *)

AeroplaneMinDistance == 500
TruckMinDistance     == 100
TruckUpper           == 500
MiniVanMinDistance   == 0
MiniVanUpper         == 100

AeroplaneRate == 1
TruckRate     == 2
MiniVanRate   == 3

AeroplaneCanHandle(distance) == distance >= Km(AeroplaneMinDistance)

TruckCanHandleAbove(distance) ==
    distance > Km(TruckMinDistance) /\ distance < Km(TruckUpper)

TruckCanHandle(distance) ==
    distance >= Km(TruckMinDistance) /\ distance < Km(TruckUpper)

MiniVanCanHandle(distance) ==
    distance >= Km(MiniVanMinDistance) /\ distance < Km(MiniVanUpper)

\* TransportModeSelector.strategies, in constructor order.
Strategies == <<"Aeroplane", "Truck", "Mini Van">>

CanHandle(mode, distance) ==
    CASE mode = "Aeroplane" -> AeroplaneCanHandle(distance)
      [] mode = "Truck"     -> TruckCanHandle(distance)
      [] mode = "Mini Van"  -> MiniVanCanHandle(distance)

GetRate(mode) ==
    CASE mode = "Aeroplane" -> AeroplaneRate
      [] mode = "Truck"     -> TruckRate
      [] mode = "Mini Van"  -> MiniVanRate

\* selectStrategy: throws on a negative distance, otherwise the first
\* strategy of the list that can handle the distance, otherwise throws.
selectStrategyUnguarded(distance) ==
    LET idx == {i \in 1..Len(Strategies) : CanHandle(Strategies[i], distance)}
    IN  IF idx = {} THEN [ok |-> FALSE, error |-> "No transport mode available"]
        ELSE [ok |-> TRUE,
              strategy |-> Strategies[CHOOSE i \in idx : \A j \in idx : i <= j]]

selectStrategy(distance) ==
    IF distance < 0 THEN [ok |-> FALSE, error |-> "Distance cannot be negative"]
    ELSE LET idx == {i \in 1..Len(Strategies) : CanHandle(Strategies[i], distance)}
         IN  IF idx = {} THEN [ok |-> FALSE, error |-> "No transport mode available"]
             ELSE [ok |-> TRUE,
                   strategy |-> Strategies[CHOOSE i \in idx : \A j \in idx : i <= j]]

getTransportModeAndRate(distance) ==
    LET s == selectStrategy(distance)
    IN  IF s.ok THEN [ok |-> TRUE, mode |-> s.strategy, rate |-> GetRate(s.strategy)]
        ELSE s

----------------------------------------------------------------------------
(* shipping-service.ts, calculateShippingCharge: the charge computation *)

\* The three unrounded amounts and their total (1/10000 Rs).
CalculateChargesNoExpressInTotal(distance, rate, weightKg, deliverySpeed, deliveryConfig) ==
    LET baseCharge      == Paise(deliveryConfig.base_charge)
        transportCharge == distance * rate * weightKg
        expressCharge   == IF deliverySpeed = "express"
                           THEN deliveryConfig.extra_charge_per_kg * weightKg
                           ELSE 0
    IN  [baseCharge |-> baseCharge, transportCharge |-> transportCharge,
         expressCharge |-> expressCharge,
         totalCharge |-> baseCharge + transportCharge]

CalculateChargesRoundedSum(distance, rate, weightKg, deliverySpeed, deliveryConfig) ==
    LET baseCharge      == Paise(deliveryConfig.base_charge)
        transportCharge == distance * rate * weightKg
        expressCharge   == IF deliverySpeed = "express"
                           THEN deliveryConfig.extra_charge_per_kg * weightKg
                           ELSE 0
    IN  [baseCharge |-> baseCharge, transportCharge |-> transportCharge,
         expressCharge |-> expressCharge,
         totalCharge |-> baseCharge + Paise(Round2(transportCharge))
                                    + Paise(Round2(expressCharge))]

CalculateCharges(distance, rate, weightKg, deliverySpeed, deliveryConfig) ==
    LET baseCharge      == Paise(deliveryConfig.base_charge)
        transportCharge == distance * rate * weightKg
        expressCharge   == IF deliverySpeed = "express"
                           THEN deliveryConfig.extra_charge_per_kg * weightKg
                           ELSE 0
    IN  [baseCharge |-> baseCharge, transportCharge |-> transportCharge,
         expressCharge |-> expressCharge,
         totalCharge |-> baseCharge + transportCharge + expressCharge]

\* Lines 335-358: select the band, compute the charges, build the result.
\* shippingCharge, transportCharge and expressCharge are in paise (rounded);
\* breakdown.baseCharge is the configured amount, passed through unrounded.
PriceRoute(distance, weightKg, deliverySpeed, deliveryConfig) ==
    LET sel == getTransportModeAndRate(distance)
    IN  IF ~sel.ok THEN [ok |-> FALSE, error |-> sel.error]
        ELSE LET c == CalculateCharges(distance, sel.rate, weightKg,
                                       deliverySpeed, deliveryConfig)
             IN  [ok |-> TRUE,
                  type |-> "object",
                  shippingCharge |-> Round2(c.totalCharge),
                  transportMode  |-> sel.mode,
                  distance_km    |-> RoundKm2(distance),
                  weight_kg      |-> weightKg,
                  breakdown      |-> [baseCharge      |-> c.baseCharge,
                                      transportCharge |-> Round2(c.transportCharge),
                                      expressCharge   |-> Round2(c.expressCharge)]]

----------------------------------------------------------------------------
(* shipping-charge/index.ts and calculate-shipping/index.ts: the handlers *)
(* that price a route without ShippingService                             *)

getTransportModeAbove(distance) ==
    IF distance >= Km(500) THEN [mode |-> "Aeroplane", rate |-> 1]
    ELSE IF distance > Km(100) THEN [mode |-> "Truck", rate |-> 2]
    ELSE [mode |-> "Mini Van", rate |-> 3]

\* The inline getTransportMode of both handlers.
getTransportMode(distance) ==
    IF distance >= Km(500) THEN [mode |-> "Aeroplane", rate |-> 1]
    ELSE IF distance >= Km(100) THEN [mode |-> "Truck", rate |-> 2]
    ELSE [mode |-> "Mini Van", rate |-> 3]

\* The handler from the delivery speed validation to the response body, for
\* rows that were found: a speed other than the two it knows is answered 400.
HandlerPrice(distance, weightKg, deliverySpeed, deliveryConfig) ==
    IF deliverySpeed # "standard" /\ deliverySpeed # "express"
    THEN [ok |-> FALSE, status |-> 400]
    ELSE LET sel             == getTransportMode(distance)
             baseCharge      == Paise(deliveryConfig.base_charge)
             transportCharge == distance * sel.rate * weightKg
             expressCharge   == IF deliverySpeed = "express"
                                THEN deliveryConfig.extra_charge_per_kg * weightKg
                                ELSE 0
             totalCharge     == baseCharge + transportCharge + expressCharge
         IN  [ok |-> TRUE,
              shippingCharge |-> Round2(totalCharge),
              transportMode  |-> sel.mode,
              distance_km    |-> RoundKm2(distance),
              weight_kg      |-> weightKg,
              breakdown      |-> [baseCharge      |-> baseCharge,
                                  transportCharge |-> Round2(transportCharge),
                                  expressCharge   |-> Round2(expressCharge)]]

----------------------------------------------------------------------------
(* Pure-function harness: one charge computation on drawn inputs *)

Window == 6

Distances ==
    {-Km(600), -Km(1), -1, 0, 1, 3, 7, Km(50), Km(250), Km(600), Km(1155) + 457}
        \cup {Km(100) + i : i \in (-Window)..Window}
        \cup {Km(500) + i : i \in (-Window)..Window}

Weights == {1, 3, 5, Kg(1), 15, Kg(10), Kg(25)}

SpeedTypes == {"standard", "express", "overnight"}

DeliveryConfigs ==
    [base_charge : {0, 1000, 1525}, extra_charge_per_kg : {0, 5, 1200}]

NotRun == <<>>

PricingDraw ==
    /\ pricingIn \in [distance : Distances, weightKg : Weights,
                      deliverySpeed : SpeedTypes, deliveryConfig : DeliveryConfigs]
    /\ pricingOut = [strategy |-> NotRun, sel |-> NotRun, price |-> NotRun,
                     handler |-> NotRun]

\* selector.selectStrategy(distance), any distance.
SelectStrategy ==
    /\ pricingOut.strategy = NotRun
    /\ pricingOut' = [pricingOut EXCEPT
                        !.strategy = <<selectStrategy(pricingIn.distance)>>]
    /\ UNCHANGED <<pricingIn, cacheVars, asyncVars, histVars, serviceVars>>

\* selector.getTransportModeAndRate(distance), any distance.
SelectTransport ==
    /\ pricingOut.sel = NotRun
    /\ pricingOut' = [pricingOut EXCEPT
                        !.sel = <<getTransportModeAndRate(pricingIn.distance)>>]
    /\ UNCHANGED <<pricingIn, cacheVars, asyncVars, histVars, serviceVars>>

\* Lines 335-358 of calculateShippingCharge; calculateDistance returns >= 0.
PriceCall ==
    /\ pricingOut.price = NotRun
    /\ pricingIn.distance >= 0
    /\ pricingOut' = [pricingOut EXCEPT
                        !.price = <<PriceRoute(pricingIn.distance, pricingIn.weightKg,
                                               pricingIn.deliverySpeed,
                                               pricingIn.deliveryConfig)>>]
    /\ UNCHANGED <<pricingIn, cacheVars, asyncVars, histVars, serviceVars>>

\* Lines 125-171 of the shipping-charge handler (141-208 of
\* calculate-shipping): its own calculateDistance returns R * c >= 0.
HandlerPriceCall ==
    /\ pricingOut.handler = NotRun
    /\ pricingIn.distance >= 0
    /\ pricingOut' = [pricingOut EXCEPT
                        !.handler = <<[sel   |-> getTransportMode(pricingIn.distance),
                                       price |-> HandlerPrice(pricingIn.distance,
                                                              pricingIn.weightKg,
                                                              pricingIn.deliverySpeed,
                                                              pricingIn.deliveryConfig)]>>]
    /\ UNCHANGED <<pricingIn, cacheVars, asyncVars, histVars, serviceVars>>

----------------------------------------------------------------------------
(* cache-manager.ts: CacheManager *)

\* JavaScript values are records tagged with their type; null is one value.
Null == [type |-> "null"]
Num(n) == [type |-> "number", n |-> n]
Str(x) == [type |-> "string", s |-> x]

\* An optional argument is <<>> when omitted and <<x>> when passed.
Omitted == <<>>
Passed(x) == <<x>>

defaultTTL == 300000

\* `ttl || this.defaultTTL`: an omitted ttl and a ttl of 0 are both falsy.
EffectiveTTL(ttl) ==
    IF ttl = Omitted \/ ttl[1] = 0 THEN defaultTTL ELSE ttl[1]

Remove(c, key) == [k \in DOMAIN c \ {key} |-> c[k]]

\* set(key, value, ttl) at time t.
CacheSet(c, key, value, ttl, t) ==
    [k \in DOMAIN c \cup {key} |->
        IF k = key THEN [value |-> value, expiresAt |-> t + EffectiveTTL(ttl)]
        ELSE c[k]]

\* get(key) at time t: the returned value, the map afterwards, hit or miss.
CacheGet(c, key, t) ==
    IF key \notin DOMAIN c
    THEN [value |-> Null, cache |-> c, hit |-> FALSE]
    ELSE IF t > c[key].expiresAt
         THEN [value |-> Null, cache |-> Remove(c, key), hit |-> FALSE]
         ELSE [value |-> c[key].value, cache |-> c, hit |-> TRUE]

\* has(key) at time t.
CacheHas(c, key, t) ==
    IF key \notin DOMAIN c
    THEN [value |-> FALSE, cache |-> c]
    ELSE IF t > c[key].expiresAt
         THEN [value |-> FALSE, cache |-> Remove(c, key)]
         ELSE [value |-> TRUE, cache |-> c]

\* delete(key).
CacheDelete(c, key) == [value |-> key \in DOMAIN c, cache |-> Remove(c, key)]

\* cleanup() at time t.
CacheCleanupInclusive(c, t) ==
    LET gone == {k \in DOMAIN c : t >= c[k].expiresAt}
    IN  [value |-> Cardinality(gone), cache |-> [k \in DOMAIN c \ gone |-> c[k]]]

CacheCleanup(c, t) ==
    LET gone == {k \in DOMAIN c : t > c[k].expiresAt}
    IN  [value |-> Cardinality(gone), cache |-> [k \in DOMAIN c \ gone |-> c[k]]]

\* getStats(); hitRate is the fraction <<numerator, denominator>>.
GetStatsMissRate(c, h, m) ==
    [hits |-> h, misses |-> m, size |-> Cardinality(DOMAIN c),
     hitRate |-> IF h + m > 0 THEN <<m, h + m>> ELSE <<0, 1>>]

GetStats(c, h, m) ==
    [hits |-> h, misses |-> m, size |-> Cardinality(DOMAIN c),
     hitRate |-> IF h + m > 0 THEN <<h, h + m>> ELSE <<0, 1>>]

\* getOrSet, line 305: this.set(key, value, ttl) once the factory resolved.
GetOrSetStoreIfAbsent(c, key, value, ttl, t) ==
    IF key \in DOMAIN c THEN c ELSE CacheSet(c, key, value, ttl, t)

GetOrSetStore(c, key, value, ttl, t) == CacheSet(c, key, value, ttl, t)

EmptyMap == [k \in {} |-> Null]

----------------------------------------------------------------------------
(* The cache driven directly: synchronous operations, the clock, and        *)
(* getOrSet calls that suspend at `await factory()`.                        *)

MaxDrift   == 2
MaxLookups == 2

Keys        == {"k1", "k2"}
AsyncKeys   == {"k1"}
CacheValues == {Null, Str("a")}
Values      == {Null, Num(0), Str("a")}
TTLArgs     == {Omitted, Passed(0), Passed(1)}
CallIds     == {1, 2}
Direct      == <<>>
TickSteps   == {1, defaultTTL}

\* held: <<v>> when the key held the unexpired value v as the call started.
\* invalidated: the key was removed by delete while the call was in flight.
IdleCall ==
    [pc |-> "idle", key |-> "", ttl |-> Omitted, value |-> Null,
     produced |-> Null, factoryCalls |-> 0, held |-> <<>>, overlaps |-> {},
     wrote |-> FALSE, invalidated |-> FALSE]

InFlight(c, key) == calls[c].pc \in {"awaiting", "queued"} /\ calls[c].key = key

NoObs == [op |-> "none", key |-> ""]

\* Does the map hold an unexpired entry under key at time t?
Holds(c, key, t) == key \in DOMAIN c /\ ~(t > c[key].expiresAt)

Record(key, value, ttl, by) ==
    [stored EXCEPT ![key] = <<[value |-> value, at |-> now, ttl |-> ttl, by |-> by]>>]

CacheFresh ==
    /\ cache = EmptyMap
    /\ hits = 0
    /\ misses = 0
    /\ now = 0
    /\ calls = [c \in CallIds |-> IdleCall]
    /\ microtasks = <<>>
    /\ resolved = <<>>
    /\ stored = [k \in Keys |-> <<>>]
    /\ obs = NoObs

Set(key, value, ttl) ==
    /\ cache' = CacheSet(cache, key, value, ttl, now)
    /\ stored' = Record(key, value, ttl, Direct)
    /\ obs' = [op |-> "set", key |-> key]
    /\ UNCHANGED <<hits, misses, now, asyncVars, pricingVars, serviceVars>>

Get(key) ==
    /\ hits + misses < MaxLookups
    /\ LET r == CacheGet(cache, key, now)
       IN  /\ cache' = r.cache
           /\ hits' = IF r.hit THEN hits + 1 ELSE hits
           /\ misses' = IF r.hit THEN misses ELSE misses + 1
           /\ obs' = [op |-> "get", key |-> key, value |-> r.value]
    /\ UNCHANGED <<now, stored, asyncVars, pricingVars, serviceVars>>

Has(key) ==
    /\ LET r == CacheHas(cache, key, now)
       IN  /\ cache' = r.cache
           /\ obs' = [op |-> "has", key |-> key, value |-> r.value]
    /\ UNCHANGED <<hits, misses, now, stored, asyncVars, pricingVars, serviceVars>>

Delete(key) ==
    /\ LET r == CacheDelete(cache, key)
       IN  /\ cache' = r.cache
           /\ obs' = [op |-> "delete", key |-> key, value |-> r.value]
           /\ calls' = [c \in CallIds |->
                          IF r.value /\ InFlight(c, key)
                          THEN [calls[c] EXCEPT !.invalidated = TRUE]
                          ELSE calls[c]]
    /\ stored' = [stored EXCEPT ![key] = <<>>]
    /\ UNCHANGED <<hits, misses, now, microtasks, resolved, pricingVars, serviceVars>>

Clear ==
    /\ cache' = EmptyMap
    /\ hits' = 0
    /\ misses' = 0
    /\ stored' = [k \in Keys |-> <<>>]
    /\ obs' = [op |-> "clear", key |-> ""]
    /\ UNCHANGED <<now, asyncVars, pricingVars, serviceVars>>

\* The sweep: called directly or by the constructor's setInterval.
Cleanup ==
    /\ LET r == CacheCleanup(cache, now)
       IN  /\ cache' = r.cache
           /\ obs' = [op |-> "cleanup", key |-> "", value |-> r.value]
    /\ UNCHANGED <<hits, misses, now, stored, asyncVars, pricingVars, serviceVars>>

ResetStats ==
    /\ hits + misses > 0
    /\ hits' = 0
    /\ misses' = 0
    /\ obs' = [op |-> "resetStats", key |-> ""]
    /\ UNCHANGED <<cache, now, stored, asyncVars, pricingVars, serviceVars>>

\* Time passes: by single milliseconds (at most MaxDrift past a multiple of
\* the default TTL) or by a whole default TTL at once.
Tick(dt) ==
    /\ IF dt = 1 THEN now % defaultTTL < MaxDrift ELSE now < dt
    /\ now' = now + dt
    /\ obs' = NoObs
    /\ UNCHANGED <<cache, hits, misses, stored, asyncVars, pricingVars, serviceVars>>

\* getOrSet up to the await: the lookup, and on a miss the factory call.
GetOrSetStart(c, key, ttl) ==
    /\ calls[c].pc = "idle"
    /\ \A d \in CallIds : d < c => calls[d].pc # "idle"
    /\ hits + misses < MaxLookups
    /\ LET r == CacheGet(cache, key, now)
           me == [calls[c] EXCEPT
                    !.key = key, !.ttl = ttl,
                    !.held = IF Holds(cache, key, now) THEN <<cache[key].value>>
                             ELSE <<>>,
                    !.overlaps = {d \in CallIds : /\ calls[d].pc = "awaiting"
                                                  /\ calls[d].key = key}]
       IN  /\ cache' = r.cache
           /\ hits' = IF r.hit THEN hits + 1 ELSE hits
           /\ misses' = IF r.hit THEN misses ELSE misses + 1
           /\ IF r.value # Null
              THEN calls' = [calls EXCEPT ![c] =
                                [me EXCEPT !.pc = "returned", !.value = r.value]]
              ELSE calls' = [calls EXCEPT ![c] =
                                [me EXCEPT !.pc = "awaiting", !.factoryCalls = 1]]
           /\ obs' = [op |-> "getOrSet", key |-> key, value |-> r.value]
    /\ UNCHANGED <<now, microtasks, resolved, stored, pricingVars, serviceVars>>

\* The factory's promise resolves with v: the continuation is queued.
FactoryResolve(c, v) ==
    /\ calls[c].pc = "awaiting"
    /\ calls' = [calls EXCEPT ![c].pc = "queued", ![c].produced = v]
    /\ microtasks' = Append(microtasks, c)
    /\ resolved' = Append(resolved, c)
    /\ obs' = NoObs
    /\ UNCHANGED <<cacheVars, stored, pricingVars, serviceVars>>

\* The factory's promise rejects: the await throws, nothing is stored.
FactoryReject(c) ==
    /\ calls[c].pc = "awaiting"
    /\ calls' = [calls EXCEPT ![c].pc = "rejected"]
    /\ obs' = NoObs
    /\ UNCHANGED <<cacheVars, microtasks, resolved, stored, pricingVars, serviceVars>>

\* The continuation after the await: set, then return the value.
GetOrSetResume ==
    /\ microtasks # <<>>
    /\ LET c == Head(microtasks)
       IN  /\ cache' = GetOrSetStore(cache, calls[c].key, calls[c].produced,
                                     calls[c].ttl, now)
           /\ stored' = Record(calls[c].key, calls[c].produced, calls[c].ttl, <<c>>)
           /\ calls' = [calls EXCEPT
                          ![c].pc = "returned",
                          ![c].value = calls[c].produced,
                          ![c].wrote = /\ calls[c].key \in DOMAIN cache'
                                       /\ cache'[calls[c].key].value = calls[c].produced]
           /\ obs' = [op |-> "resume", key |-> calls[c].key, call |-> c]
    /\ microtasks' = Tail(microtasks)
    /\ UNCHANGED <<hits, misses, now, resolved, pricingVars, serviceVars>>

CacheNext ==
    \/ \E k \in Keys, v \in CacheValues, t \in TTLArgs : Set(k, v, t)
    \/ \E k \in Keys : Get(k)
    \/ \E k \in Keys : Has(k)
    \/ \E k \in Keys : Delete(k)
    \/ Clear
    \/ Cleanup
    \/ ResetStats
    \/ \E dt \in TickSteps : Tick(dt)

AsyncNext ==
    \/ \E k \in AsyncKeys, v \in Values, t \in TTLArgs : Set(k, v, t)
    \/ \E k \in AsyncKeys : Delete(k)
    \/ Tick(defaultTTL)
    \/ \E c \in CallIds, k \in AsyncKeys, t \in TTLArgs : GetOrSetStart(c, k, t)
    \/ \E c \in CallIds, v \in Values : FactoryResolve(c, v)
    \/ \E c \in CallIds : FactoryReject(c)
    \/ GetOrSetResume

----------------------------------------------------------------------------
(* Specifications *)

PricingIdle == pricingIn = <<>> /\ pricingOut = <<>>

ServiceIdle == warehouses = <<>> /\ reqs = <<>> /\ callCount = 0 /\ ret = <<>>

PricingNext ==
    \/ SelectStrategy
    \/ SelectTransport
    \/ PriceCall
    \/ HandlerPriceCall

PricingInit ==
    /\ PricingDraw
    /\ CacheFresh
    /\ ServiceIdle

CacheInit ==
    /\ CacheFresh
    /\ PricingIdle
    /\ ServiceIdle

SpecPricing == PricingInit /\ [][PricingNext]_vars

SpecCache == CacheInit /\ [][CacheNext]_vars

SpecGetOrSet == CacheInit /\ [][AsyncNext]_vars

----------------------------------------------------------------------------
(* Transport band selection and charge composition (SpecPricing) *)

PriceRan == pricingOut.price # NotRun
PriceResult == pricingOut.price[1]
SelectRan == pricingOut.sel # NotRun
SelectResult == pricingOut.sel[1]

\* The band table of the specification, written out.
BandRate(d) == IF d < Km(100) THEN 3 ELSE IF d < Km(500) THEN 2 ELSE 1
BandMode(d) ==
    IF d < Km(100) THEN "Mini Van" ELSE IF d < Km(500) THEN "Truck" ELSE "Aeroplane"

\* C1: the returned shippingCharge is the 2-decimal rounding of
\* baseCharge + d * rate(d) * w + expressCharge formed from the unrounded
\* components, expressCharge being extraChargePerKg * w for "express" and 0
\* for every other speed.
C1_TotalFromUnroundedComponents ==
    (PriceRan /\ PriceResult.ok) =>
        LET d == pricingIn.distance
            w == pricingIn.weightKg
            cfg == pricingIn.deliveryConfig
            express == IF pricingIn.deliverySpeed = "express"
                       THEN cfg.extra_charge_per_kg * w ELSE 0
        IN  PriceResult.shippingCharge
                = Round2(Paise(cfg.base_charge) + d * BandRate(d) * w + express)

\* An express charge whose total differs from the sum of its rounded parts.
C1_Witness ==
    /\ PriceRan
    /\ PriceResult.ok
    /\ pricingIn.deliverySpeed = "express"
    /\ PriceResult.breakdown.expressCharge > 0
    /\ PriceResult.shippingCharge * 100
          # PriceResult.breakdown.baseCharge
              + 100 * PriceResult.breakdown.transportCharge
              + 100 * PriceResult.breakdown.expressCharge

\* C2: for every distance d >= 0 the selector succeeds, exactly one strategy
\* can handle d, and the result is (Mini Van, 3) below 100 km, (Truck, 2)
\* from 100 km to below 500 km and (Aeroplane, 1) from 500 km on.
C2_BandsPartitionDistances ==
    (SelectRan /\ pricingIn.distance >= 0) =>
        LET d == pricingIn.distance
        IN  /\ SelectResult.ok
            /\ Cardinality({i \in 1..Len(Strategies) : CanHandle(Strategies[i], d)}) = 1
            /\ SelectResult.mode = BandMode(d)
            /\ SelectResult.rate = BandRate(d)
            /\ d = Km(100) => SelectResult.mode = "Truck"
            /\ d = Km(500) => SelectResult.mode = "Aeroplane"

\* Exactly 100 km was selected.
C2_Witness ==
    /\ SelectRan
    /\ pricingIn.distance = Km(100)
    /\ SelectResult.ok
    /\ SelectResult.mode = "Truck"

\* C4: the returned total differs from the sum of the returned breakdown
\* fields by at most 0.01.
C4_TotalWithinOnePaisaOfBreakdown ==
    (PriceRan /\ PriceResult.ok /\ pricingIn.weightKg > 0) =>
        Abs(100 * PriceResult.shippingCharge
              - (PriceResult.breakdown.baseCharge
                   + 100 * PriceResult.breakdown.transportCharge
                   + 100 * PriceResult.breakdown.expressCharge)) <= Paise(1)

\* The tolerance is used in full: total and breakdown differ by exactly 0.01.
C4_Witness ==
    /\ PriceRan
    /\ PriceResult.ok
    /\ Abs(100 * PriceResult.shippingCharge
              - (PriceResult.breakdown.baseCharge
                   + 100 * PriceResult.breakdown.transportCharge
                   + 100 * PriceResult.breakdown.expressCharge)) = Paise(1)

----------------------------------------------------------------------------
(* Expiry of cache entries (SpecCache) *)

\* The last get or has observed a key whose last set passed a ttl explicitly
\* and which was not deleted or cleared since.
ReadOfStored ==
    /\ obs.op \in {"get", "has"}
    /\ stored[obs.key] # <<>>
    /\ stored[obs.key][1].ttl # Omitted

ReadAgrees(h, deadline) ==
    IF now <= deadline
    THEN IF obs.op = "get" THEN obs.value = h.value ELSE obs.value = TRUE
    ELSE /\ IF obs.op = "get" THEN obs.value = Null ELSE obs.value = FALSE
         /\ obs.key \notin DOMAIN cache

\* C8: a value stored with set(key, value, ttl) at time t is returned by get
\* and reported by has at every time up to and including t + ttl, and at
\* every later time get returns null, has returns false and the read evicts
\* the entry.
C8_ExpiresAtSetTimePlusTtl ==
    ReadOfStored =>
        LET h == stored[obs.key][1]
        IN  ReadAgrees(h, h.at + h.ttl[1])

\* The same with the rule of the code for a ttl of 0: it is replaced by the
\* default TTL.
ExpiryForEffectiveTtl ==
    ReadOfStored =>
        LET h == stored[obs.key][1]
        IN  ReadAgrees(h, h.at + (IF h.ttl[1] = 0 THEN defaultTTL ELSE h.ttl[1]))

ExpiredReadSeen ==
    /\ ReadOfStored
    /\ stored[obs.key][1].ttl = Passed(1)
    /\ now > stored[obs.key][1].at + 1

BoundaryReadSeen ==
    /\ ReadOfStored
    /\ obs.op = "get"
    /\ stored[obs.key][1].ttl = Passed(1)
    /\ now = stored[obs.key][1].at + 1
    /\ obs.value = Str("a")

----------------------------------------------------------------------------
(* getOrSet (SpecGetOrSet) *)

\* The call that returned in the last step through its continuation.
Resumed(c) == obs.op = "resume" /\ obs.call = c

\* C9: getOrSet invokes the factory zero times and returns the cached value
\* whenever the key holds an unexpired entry, whatever the stored value;
\* otherwise it invokes the factory exactly once, stores the result under the
\* key with the given ttl and returns it, and an immediately following
\* get(key) returns the same value.
C9_FactoryOnlyOnMissAndStoredWithTtl ==
    \A c \in CallIds :
        calls[c].pc = "returned" =>
            IF calls[c].held # <<>>
            THEN /\ calls[c].factoryCalls = 0
                 /\ calls[c].value = calls[c].held[1]
            ELSE /\ calls[c].factoryCalls = 1
                 /\ calls[c].value = calls[c].produced
                 /\ Resumed(c) =>
                      /\ calls[c].key \in DOMAIN cache
                      /\ cache[calls[c].key].value = calls[c].value
                      /\ cache[calls[c].key].expiresAt =
                            now + (IF calls[c].ttl = Omitted THEN defaultTTL
                                   ELSE calls[c].ttl[1])
                      /\ CacheGet(cache, calls[c].key, now).value = calls[c].value

\* The same for entries whose value is not null and for a ttl other than 0.
GetOrSetOnNonNullNonZeroTtl ==
    \A c \in CallIds :
        (calls[c].pc = "returned" /\ calls[c].ttl # Passed(0)) =>
            IF calls[c].held # <<>> /\ calls[c].held # <<Null>>
            THEN /\ calls[c].factoryCalls = 0
                 /\ calls[c].value = calls[c].held[1]
            ELSE /\ calls[c].factoryCalls = 1
                 /\ calls[c].value = calls[c].produced
                 /\ Resumed(c) =>
                      /\ calls[c].key \in DOMAIN cache
                      /\ cache[calls[c].key].value = calls[c].value
                      /\ cache[calls[c].key].expiresAt =
                            now + (IF calls[c].ttl = Omitted THEN defaultTTL
                                   ELSE calls[c].ttl[1])
                      /\ CacheGet(cache, calls[c].key, now).value = calls[c].value

\* c2 started while c1 was suspended in its factory on the same key, and
\* neither found an unexpired entry.
OverlappingMisses(c1, c2) ==
    /\ c1 # c2
    /\ c1 \in calls[c2].overlaps
    /\ calls[c1].held = <<>>
    /\ calls[c2].held = <<>>

ResolvedAt(c) == CHOOSE i \in 1..Len(resolved) : resolved[i] = c

LastResolved(c1, c2) == IF ResolvedAt(c1) > ResolvedAt(c2) THEN c1 ELSE c2

\* C10: two overlapping getOrSet calls on the same absent key both invoke
\* their factory and both write the cache; the value left under the key is
\* the one of the call whose factory resolved last, and each caller receives
\* the result of its own factory.
C10_OverlappingMissesLastWriteWins ==
    \A c1, c2 \in CallIds :
        OverlappingMisses(c1, c2) =>
            /\ calls[c1].factoryCalls = 1
            /\ calls[c2].factoryCalls = 1
            /\ (calls[c1].pc = "returned" /\ calls[c2].pc = "returned") =>
                 /\ calls[c1].wrote
                 /\ calls[c2].wrote
                 /\ calls[c1].value = calls[c1].produced
                 /\ calls[c2].value = calls[c2].produced
                 /\ (/\ stored[calls[c1].key] # <<>>
                     /\ stored[calls[c1].key][1].by \in {<<c1>>, <<c2>>}
                     /\ calls[c1].key \in DOMAIN cache)
                      => cache[calls[c1].key].value
                            = calls[LastResolved(c1, c2)].produced

\* Call 2 started during call 1's factory, resolved first, and the key holds
\* the value of call 1, which resolved last.
C10_Witness ==
    /\ OverlappingMisses(1, 2)
    /\ calls[1].pc = "returned"
    /\ calls[2].pc = "returned"
    /\ resolved = <<2, 1>>
    /\ calls[1].produced # calls[2].produced
    /\ calls[1].key \in DOMAIN cache
    /\ stored[calls[1].key] # <<>>
    /\ stored[calls[1].key][1].by = <<1>>
    /\ cache[calls[1].key].value = calls[1].produced

----------------------------------------------------------------------------
(* distance-calculator.ts and validation.ts *)

\* Coordinates are in tenths of a degree.  The numbers that are not finite
\* are coded beyond every finite value of the model: the two infinities in
\* their place in the order, NaN as a value that compares false with
\* everything.
Infinity == 1000000
NaN == 2000000
isNaN(x) == x = NaN
Geq(x, y) == ~isNaN(x) /\ ~isNaN(y) /\ x >= y
Leq(x, y) == ~isNaN(x) /\ ~isNaN(y) /\ x <= y

isValidCoordinateOpen(lat, lon) ==
    /\ ~isNaN(lat) /\ ~isNaN(lon)
    /\ Geq(lat, -899) /\ Leq(lat, 899) /\ Geq(lon, -1799) /\ Leq(lon, 1799)

isValidCoordinate(lat, lon) ==
    /\ ~isNaN(lat) /\ ~isNaN(lon)
    /\ Geq(lat, -900) /\ Leq(lat, 900) /\ Geq(lon, -1800) /\ Leq(lon, 1800)

\* validateCoordinates: TRUE when it returns, FALSE when it throws.
validateCoordinates(latitude, longitude) ==
    ~(latitude < -900 \/ latitude > 900) /\ ~(longitude < -1800 \/ longitude > 1800)

R == 6371

\* calculateDistance, in metres.  Every row of the store lies on one
\* meridian; there dLon = 0, a = sin^2(dLat / 2), c = |dLat| in radians and
\* the result is R * |dLat| * pi / 180 (pi / 180 taken as 0.01745, i.e. 349/200
\* metres per km of radius and tenth of a degree, the quotient taken in two
\* parts to stay within 32 bits).  Two points on the equator give
\* a = sin^2(dLon / 2) and the shorter of the two arcs between them.
Arc(tenths) ==
    LET km == tenths * R
    IN  (km \div 200) * 349 + ((km % 200) * 349) \div 200

calculateDistanceSummed(lat1, lon1, lat2, lon2) ==
    IF ~isValidCoordinate(lat1, lon1) \/ ~isValidCoordinate(lat2, lon2)
    THEN [ok |-> FALSE, error |-> "Error", message |-> "Invalid coordinates provided"]
    ELSE [ok |-> TRUE, distance |-> Arc(Abs(lat2 + lat1))]

calculateDistance(lat1, lon1, lat2, lon2) ==
    IF ~isValidCoordinate(lat1, lon1) \/ ~isValidCoordinate(lat2, lon2)
    THEN [ok |-> FALSE, error |-> "Error", message |-> "Invalid coordinates provided"]
    ELSE CASE lon1 = lon2 ->
              [ok |-> TRUE, distance |-> Arc(Abs(lat2 - lat1))]
           [] lat1 = 0 /\ lat2 = 0 ->
              LET dLon == Abs(lon2 - lon1)
                  arc  == IF dLon <= 1800 THEN dLon ELSE 3600 - dLon
              IN  [ok |-> TRUE, distance |-> Arc(arc)]

----------------------------------------------------------------------------
(* cache-manager.ts: CacheKeyBuilder *)

nearestWarehouseKey(sellerId) == "nearest_warehouse:seller:" \o sellerId

shippingChargeKey(warehouseId, customerId, deliverySpeed, productId) ==
    LET base == "shipping_charge:" \o warehouseId \o ":" \o customerId
                    \o ":" \o deliverySpeed
    IN  IF productId # "" THEN base \o ":" \o productId ELSE base

calculationKey(sellerId, customerId, deliverySpeed, productId) ==
    LET base == "calculation:" \o sellerId \o ":" \o customerId
                    \o ":" \o deliverySpeed
    IN  IF productId # "" THEN base \o ":" \o productId ELSE base

----------------------------------------------------------------------------
(* The store: rows the service reads.  Only the warehouses table varies     *)
(* between behaviours; the other tables are fixed.                          *)

\* The longitude of Delhi, in tenths of a degree.
Meridian == 772

Row(id, name, lat, lon) ==
    [id |-> id, name |-> name, latitude |-> lat, longitude |-> lon]

WRow(id, name, lat, lon, active) ==
    [id |-> id, name |-> name, latitude |-> lat, longitude |-> lon,
     is_active |-> active]

Sellers ==
    [s1 |-> Row("s1", "Nestle", 200, Meridian),
     s2 |-> Row("s2", "Offgrid", 950, Meridian)]

Customers ==
    [c1 |-> Row("c1", "Shree Kirana", 212, Meridian),
     c3 |-> Row("c3", "Nowhere Store", 212, 1900)]

Products == [p1 |-> [id |-> "p1", weight_kg |-> 25]]

DeliverySpeeds ==
    [standard |-> [speed_type |-> "standard", base_charge |-> 1000,
                   extra_charge_per_kg |-> 500],
     express  |-> [speed_type |-> "express", base_charge |-> 1000,
                   extra_charge_per_kg |-> 1205]]

W1 == WRow("w1", "North_Warehouse", 210, Meridian, TRUE)
W2 == WRow("w2", "South_Warehouse", 190, Meridian, TRUE)
W3 == WRow("w3", "Closed_Warehouse", 202, Meridian, FALSE)
W4 == WRow("w4", "Far_Warehouse", 260, Meridian, TRUE)
W5 == WRow("w5", "Broken_Warehouse", -950, Meridian, TRUE)

\* w1 and w2 are equally far from s1; w3 is nearer but inactive.
WarehouseTables ==
    { <<W4, W1, W2, W3>>, <<W3, W2, W1, W4>>, <<W3>>, <<W1, W5>> }

\* .from(table).select().eq('id', id).single(): <<row>> or <<>> (no row).
Single(table, id) == IF id \in DOMAIN table THEN <<table[id]>> ELSE <<>>

WarehouseById(rows, id) ==
    LET idx == {i \in 1..Len(rows) : rows[i].id = id}
    IN  IF idx = {} THEN <<>> ELSE <<rows[CHOOSE i \in idx : TRUE]>>

\* .from('warehouses').select().eq('is_active', true)
IsActive(w) == w.is_active
ActiveWarehouses(rows) == SelectSeq(rows, IsActive)

----------------------------------------------------------------------------
(* shipping-service.ts: errors and results *)

Throw(kind, resource, id) ==
    [ok |-> FALSE, error |-> kind, resource |-> resource, id |-> id]

Return(value) == [ok |-> TRUE, value |-> value]

\* new ResourceNotFoundError(resourceType, resourceId)
NotFoundUntyped(resourceType, resourceId) == Throw("Error", resourceType, resourceId)
NotFound(resourceType, resourceId) ==
    Throw("ResourceNotFoundError", resourceType, resourceId)

\* .single(): <<row>>, or <<>> when no row matches or the query fails
\* (`error || !data` is tested as one condition).
Fetched(table, id, dbError) == IF dbError THEN <<>> ELSE Single(table, id)

\* `!warehouses || warehouses.length === 0`
NoRowsNever(rows) == FALSE
NoRows(rows) == Len(rows) = 0

\* `if (cached)`: every value tested this way is an object or null.
TruthyNever(v) == FALSE
Truthy(v) == v.type = "object"

\* Lines 168-184, one iteration: the running minimum is <<>> for Infinity.
ScanStepLastWins(acc, warehouse, seller) ==
    LET d == calculateDistance(seller.latitude, seller.longitude,
                               warehouse.latitude, warehouse.longitude)
    IN  IF ~acc.ok THEN acc
        ELSE IF ~d.ok THEN d
        ELSE IF acc.minDistance = <<>> \/ d.distance <= acc.minDistance[1]
             THEN [ok |-> TRUE, minDistance |-> <<d.distance>>,
                   nearestWarehouse |-> <<warehouse>>]
             ELSE acc

ScanStep(acc, warehouse, seller) ==
    LET d == calculateDistance(seller.latitude, seller.longitude,
                               warehouse.latitude, warehouse.longitude)
    IN  IF ~acc.ok THEN acc
        ELSE IF ~d.ok THEN d
        ELSE IF acc.minDistance = <<>> \/ d.distance < acc.minDistance[1]
             THEN [ok |-> TRUE, minDistance |-> <<d.distance>>,
                   nearestWarehouse |-> <<warehouse>>]
             ELSE acc

RECURSIVE Scan(_, _, _)
Scan(acc, rows, seller) ==
    IF rows = <<>> THEN acc
    ELSE Scan(ScanStep(acc, Head(rows), seller), Tail(rows), seller)

NearestTTL == 300000
ChargeTTL == 120000
CalculationTTL == 120000

\* findNearestWarehouse from the answer of the warehouses query on
\* (lines 154-203): the outcome and the cache afterwards.
FnwFinishCachesFirst(c, sellerId, seller, rows, dbError, t) ==
    LET early == CacheSet(c, nearestWarehouseKey(sellerId),
                          [type |-> "object", warehouseId |-> "", distance_km |-> 0],
                          Passed(NearestTTL), t)
        scan == Scan([ok |-> TRUE, minDistance |-> <<>>, nearestWarehouse |-> <<>>],
                     rows, seller)
    IN  IF dbError THEN [out |-> Throw("Error", "warehouses", ""), cache |-> early]
        ELSE IF NoRows(rows)
        THEN [out |-> Throw("NoWarehousesFoundError", "", sellerId), cache |-> early]
        ELSE IF ~scan.ok THEN [out |-> Throw("Error", "coordinates", ""), cache |-> early]
        ELSE LET w == scan.nearestWarehouse[1]
                 result == [type |-> "object",
                            warehouseId |-> w.id,
                            warehouseLocation |-> [lat |-> w.latitude,
                                                   long |-> w.longitude],
                            warehouseName |-> w.name,
                            distance_km |-> RoundKm2(scan.minDistance[1])]
             IN  [out |-> Return(result),
                  cache |-> CacheSet(c, nearestWarehouseKey(sellerId), result,
                                     Passed(NearestTTL), t)]

FnwFinish(c, sellerId, seller, rows, dbError, t) ==
    LET scan == Scan([ok |-> TRUE, minDistance |-> <<>>, nearestWarehouse |-> <<>>],
                     rows, seller)
    IN  IF dbError THEN [out |-> Throw("Error", "warehouses", ""), cache |-> c]
        ELSE IF NoRows(rows)
        THEN [out |-> Throw("NoWarehousesFoundError", "", sellerId), cache |-> c]
        ELSE IF ~scan.ok THEN [out |-> Throw("Error", "coordinates", ""), cache |-> c]
        ELSE IF scan.nearestWarehouse = <<>>
        THEN [out |-> Throw("Error", "nearest", ""), cache |-> c]
        ELSE LET w == scan.nearestWarehouse[1]
                 result == [type |-> "object",
                            warehouseId |-> w.id,
                            warehouseLocation |-> [lat |-> w.latitude,
                                                   long |-> w.longitude],
                            warehouseName |-> w.name,
                            distance_km |-> RoundKm2(scan.minDistance[1])]
             IN  [out |-> Return(result),
                  cache |-> CacheSet(c, nearestWarehouseKey(sellerId), result,
                                     Passed(NearestTTL), t)]

\* Lines 313-325: the weight, given the product id and the answer of the
\* products query (<<>> when no row came back or the query failed).
DefaultWeightKg == Kg(1)

ResolveWeightNoFallback(productId, product) ==
    IF productId # "" THEN (IF product # <<>> THEN product[1].weight_kg ELSE 0)
    ELSE DefaultWeightKg

ResolveWeight(productId, product) ==
    IF productId # "" /\ product # <<>> THEN product[1].weight_kg
    ELSE DefaultWeightKg

\* calculateShippingCharge from the weight on (lines 327-363).
CscFinish(c, key, warehouse, customer, deliverySpeed, deliveryConfig, weightKg, t) ==
    LET d == calculateDistance(warehouse.latitude, warehouse.longitude,
                               customer.latitude, customer.longitude)
    IN  IF ~d.ok THEN [out |-> Throw("Error", "coordinates", ""), cache |-> c]
        ELSE LET p == PriceRoute(d.distance, weightKg, deliverySpeed, deliveryConfig)
             IN  IF ~p.ok THEN [out |-> Throw("Error", "distance", ""), cache |-> c]
                 ELSE LET result == [type |-> "object",
                                     shippingCharge |-> p.shippingCharge,
                                     transportMode |-> p.transportMode,
                                     distance_km |-> p.distance_km,
                                     weight_kg |-> p.weight_kg,
                                     breakdown |-> p.breakdown]
                      IN  [out |-> Return(result),
                           cache |-> CacheSet(c, key, result, Passed(ChargeTTL), t)]

\* calculateCompleteShipping, lines 423-434: the combined result.
MergeNearestDistance(nearestWarehouse, shippingCharge) ==
    [type |-> "object",
     shippingCharge |-> shippingCharge.shippingCharge,
     nearestWarehouse |-> [warehouseId |-> nearestWarehouse.warehouseId,
                           warehouseLocation |-> nearestWarehouse.warehouseLocation,
                           warehouseName |-> nearestWarehouse.warehouseName],
     transportMode |-> shippingCharge.transportMode,
     distance_km |-> nearestWarehouse.distance_km,
     weight_kg |-> shippingCharge.weight_kg,
     breakdown |-> shippingCharge.breakdown]

Merge(nearestWarehouse, shippingCharge) ==
    [type |-> "object",
     shippingCharge |-> shippingCharge.shippingCharge,
     nearestWarehouse |-> [warehouseId |-> nearestWarehouse.warehouseId,
                           warehouseLocation |-> nearestWarehouse.warehouseLocation,
                           warehouseName |-> nearestWarehouse.warehouseName],
     transportMode |-> shippingCharge.transportMode,
     distance_km |-> shippingCharge.distance_km,
     weight_kg |-> shippingCharge.weight_kg,
     breakdown |-> shippingCharge.breakdown]

----------------------------------------------------------------------------
(* shipping-service.ts: the three operations, one action per stretch of     *)
(* code between two awaits                                                  *)

MaxCalls == 2
MaxSteps == 2

ReqIds == {1, 2}

NoArgs ==
    [sellerId |-> "", customerId |-> "", deliverySpeed |-> "", productId |-> ""]

\* A call: the operation, its arguments, where it is suspended, its locals.
\* warehouseId is the argument of calculateShippingCharge (of the inner call
\* when the operation is calculateCompleteShipping).
IdleReq ==
    [pc |-> "idle", op |-> "", args |-> NoArgs, warehouseId |-> "",
     seller |-> <<>>, warehouse |-> <<>>, customer |-> <<>>,
     deliveryConfig |-> <<>>, product |-> <<>>, weightKg |-> 0,
     nw |-> <<>>, sc |-> <<>>, nwCached |-> FALSE, scCached |-> FALSE,
     storeError |-> FALSE, reads |-> <<>>, nwSince |-> <<>>, scSince |-> <<>>]

\* The table each query reads; the call is suspended at `pc` until it answers.
TableOf(pc) ==
    CASE pc = "fnw_seller"     -> "sellers"
      [] pc = "fnw_warehouses" -> "warehouses"
      [] pc = "csc_warehouse"  -> "warehouses"
      [] pc = "csc_customer"   -> "customers"
      [] pc = "csc_speed"      -> "delivery_speeds"
      [] pc = "csc_product"    -> "products"

\* `await this.supabase.from(table)...`: the query is issued and the call
\* waits for it.
Query(req, pc) == [req EXCEPT !.pc = pc, !.reads = Append(@, TableOf(pc))]

NoRet == [op |-> "none"]

\* What one stretch of code does: the call afterwards, the cache afterwards,
\* the lookups counted, and the outcome when the call ended (<<>> otherwise).
Step(req, c, dh, dm, out) ==
    [req |-> req, cache |-> c, dh |-> dh, dm |-> dm, out |-> out]

Counted(st, dh, dm) == [st EXCEPT !.dh = @ + dh, !.dm = @ + dm]

\* The time of the oldest store read behind the entry under key (kept beside
\* the cache, for the entries the service stores).
Since(key) == stored[key][1].since

\* The time of the oldest store read behind what the call stores under key.
SinceOf(req, key) ==
    IF key = nearestWarehouseKey(req.args.sellerId) THEN req.nwSince[1]
    ELSE IF key = calculationKey(req.args.sellerId, req.args.customerId,
                                 req.args.deliverySpeed, req.args.productId)
    THEN (IF req.nwSince[1] < req.scSince[1] THEN req.nwSince[1] ELSE req.scSince[1])
    ELSE req.scSince[1]

\* findNearestWarehouse hands its outcome to its caller.
FnwLeave(req, c, dh, dm, outcome, cached) ==
    IF req.op = "fnw"
    THEN Step([req EXCEPT !.nwCached = cached], c, dh, dm, <<outcome>>)
    ELSE IF outcome.ok
         THEN Step([req EXCEPT !.pc = "ccs_await_fnw", !.nw = <<outcome.value>>,
                               !.nwCached = cached], c, dh, dm, <<>>)
         ELSE Step(req, c, dh, dm, <<outcome>>)

\* findNearestWarehouse, lines 115-128: the cache lookup, then the seller query.
FnwEnter(req, c, t) ==
    LET g == CacheGet(c, nearestWarehouseKey(req.args.sellerId), t)
    IN  IF Truthy(g.value)
        THEN FnwLeave([req EXCEPT !.nwSince =
                          <<Since(nearestWarehouseKey(req.args.sellerId))>>],
                      g.cache, 1, 0, Return(g.value), TRUE)
        ELSE Step(Query([req EXCEPT !.nwSince = <<t>>], "fnw_seller"),
                  g.cache, 0, 1, <<>>)

\* calculateShippingCharge hands its outcome to its caller.
CscLeave(req, c, dh, dm, outcome, cached) ==
    IF req.op = "csc"
    THEN Step([req EXCEPT !.scCached = cached], c, dh, dm, <<outcome>>)
    ELSE IF outcome.ok
         THEN Step([req EXCEPT !.pc = "ccs_await_csc", !.sc = <<outcome.value>>,
                               !.scCached = cached], c, dh, dm, <<>>)
         ELSE Step(req, c, dh, dm, <<outcome>>)

\* calculateShippingCharge, lines 239-257: the cache lookup, then the
\* warehouse query.
CscEnter(req, warehouseId, c, t) ==
    LET q == [req EXCEPT !.warehouseId = warehouseId]
        key == shippingChargeKey(warehouseId, req.args.customerId,
                                 req.args.deliverySpeed, req.args.productId)
        g == CacheGet(c, key, t)
    IN  IF Truthy(g.value)
        THEN CscLeave([q EXCEPT !.scSince = <<Since(key)>>],
                      g.cache, 1, 0, Return(g.value), TRUE)
        ELSE Step(Query([q EXCEPT !.scSince = <<t>>], "csc_warehouse"),
                  g.cache, 0, 1, <<>>)

\* calculateShippingCharge, lines 327-363, once the weight is known.
CscCompute(req, c, t) ==
    LET f == CscFinish(c,
                       shippingChargeKey(req.warehouseId, req.args.customerId,
                                         req.args.deliverySpeed, req.args.productId),
                       req.warehouse[1], req.customer[1], req.args.deliverySpeed,
                       req.deliveryConfig[1], req.weightKg, t)
    IN  CscLeave(req, f.cache, 0, 0, f.out, FALSE)

\* The effect of a stretch of code of call r on the state.
Apply(r, st) ==
    /\ cache' = st.cache
    /\ hits' = hits + st.dh
    /\ misses' = misses + st.dm
    /\ IF st.out = <<>>
       THEN /\ reqs' = [reqs EXCEPT ![r] = st.req]
            /\ ret' = NoRet
       ELSE /\ reqs' = [reqs EXCEPT ![r] = IdleReq]
            /\ ret' = [op |-> st.req.op, id |-> r, req |-> st.req,
                       outcome |-> st.out[1]]
    /\ stored' = [k \in DOMAIN st.cache |->
                    IF k \in DOMAIN cache /\ st.cache[k] = cache[k]
                    THEN stored[k]
                    ELSE <<[since |-> SinceOf(st.req, k)]>>]
    /\ UNCHANGED <<now, warehouses, asyncVars, obs, pricingVars>>

CanStart(r) == reqs[r].pc = "idle" /\ callCount < MaxCalls

StartFindNearestWarehouse(r, sellerId) ==
    /\ CanStart(r)
    /\ callCount' = callCount + 1
    /\ Apply(r, FnwEnter([IdleReq EXCEPT !.op = "fnw", !.args.sellerId = sellerId],
                         cache, now))

\* Lines 130-152: the seller row arrived.
FnwSellerFetched(r, dbError) ==
    /\ reqs[r].pc = "fnw_seller"
    /\ LET req == [reqs[r] EXCEPT !.storeError = dbError]
           seller == Fetched(Sellers, req.args.sellerId, dbError)
       IN  Apply(r,
              IF seller = <<>>
              THEN Step(req, cache, 0, 0, <<NotFound("Seller", req.args.sellerId)>>)
              ELSE IF ~validateCoordinates(seller[1].latitude, seller[1].longitude)
              THEN Step(req, cache, 0, 0,
                        <<Throw("UnsupportedLocationError", "seller", req.args.sellerId)>>)
              ELSE Step(Query([req EXCEPT !.seller = seller], "fnw_warehouses"),
                        cache, 0, 0, <<>>))
    /\ UNCHANGED callCount

\* Lines 154-203: the active warehouses arrived (or the query failed).
FnwWarehousesFetched(r, dbError) ==
    /\ reqs[r].pc = "fnw_warehouses"
    /\ LET req == [reqs[r] EXCEPT !.storeError = dbError]
           f == FnwFinish(cache, req.args.sellerId, req.seller[1],
                          ActiveWarehouses(warehouses), dbError, now)
       IN  Apply(r, FnwLeave(req, f.cache, 0, 0, f.out, FALSE))
    /\ UNCHANGED callCount

StartCalculateShippingCharge(r, warehouseId, customerId, deliverySpeed, productId) ==
    /\ CanStart(r)
    /\ callCount' = callCount + 1
    /\ Apply(r, CscEnter([IdleReq EXCEPT !.op = "csc",
                                         !.args.customerId = customerId,
                                         !.args.deliverySpeed = deliverySpeed,
                                         !.args.productId = productId],
                         warehouseId, cache, now))

\* Lines 259-282: the warehouse row arrived.
CscWarehouseFetched(r, dbError) ==
    /\ reqs[r].pc = "csc_warehouse"
    /\ LET req == [reqs[r] EXCEPT !.storeError = dbError]
           warehouse == IF dbError THEN <<>>
                        ELSE WarehouseById(warehouses, req.warehouseId)
       IN  Apply(r,
              IF warehouse = <<>>
              THEN Step(req, cache, 0, 0, <<NotFound("Warehouse", req.warehouseId)>>)
              ELSE IF ~validateCoordinates(warehouse[1].latitude, warehouse[1].longitude)
              THEN Step(req, cache, 0, 0,
                        <<Throw("UnsupportedLocationError", "warehouse", req.warehouseId)>>)
              ELSE Step(Query([req EXCEPT !.warehouse = warehouse], "csc_customer"),
                        cache, 0, 0, <<>>))
    /\ UNCHANGED callCount

\* Lines 284-307: the customer row arrived.
CscCustomerFetched(r, dbError) ==
    /\ reqs[r].pc = "csc_customer"
    /\ LET req == [reqs[r] EXCEPT !.storeError = dbError]
           customer == Fetched(Customers, req.args.customerId, dbError)
       IN  Apply(r,
              IF customer = <<>>
              THEN Step(req, cache, 0, 0, <<NotFound("Customer", req.args.customerId)>>)
              ELSE IF ~validateCoordinates(customer[1].latitude, customer[1].longitude)
              THEN Step(req, cache, 0, 0,
                        <<Throw("UnsupportedLocationError", "customer", req.args.customerId)>>)
              ELSE Step(Query([req EXCEPT !.customer = customer], "csc_speed"),
                        cache, 0, 0, <<>>))
    /\ UNCHANGED callCount

\* Lines 309-320: the delivery speed row arrived; without a product id the
\* code runs on to the end (lines 327-363).
CscSpeedFetched(r, dbError) ==
    /\ reqs[r].pc = "csc_speed"
    /\ LET req == [reqs[r] EXCEPT !.storeError = dbError]
           deliveryConfig == Fetched(DeliverySpeeds, req.args.deliverySpeed, dbError)
       IN  Apply(r,
              IF deliveryConfig = <<>>
              THEN Step(req, cache, 0, 0,
                        <<Throw("Error", "DeliverySpeedConfig", req.args.deliverySpeed)>>)
              ELSE IF req.args.productId # ""
              THEN Step(Query([req EXCEPT !.deliveryConfig = deliveryConfig],
                                   "csc_product"),
                        cache, 0, 0, <<>>)
              ELSE CscCompute([req EXCEPT
                                 !.deliveryConfig = deliveryConfig,
                                 !.weightKg = ResolveWeight(req.args.productId, <<>>)],
                              cache, now))
    /\ UNCHANGED callCount

\* Lines 322-363: the product row arrived (or the query failed).
CscProductFetched(r, dbError) ==
    /\ reqs[r].pc = "csc_product"
    /\ LET req == [reqs[r] EXCEPT !.storeError = dbError]
           product == Fetched(Products, req.args.productId, dbError)
       IN  Apply(r, CscCompute([req EXCEPT
                                  !.product = product,
                                  !.weightKg = ResolveWeight(req.args.productId, product)],
                               cache, now))
    /\ UNCHANGED callCount

OwnKeyOfComplete(req) ==
    calculationKey(req.args.sellerId, req.args.customerId,
                   req.args.deliverySpeed, req.args.productId)

\* calculateCompleteShipping, lines 399-413, running into findNearestWarehouse.
StartCalculateCompleteShipping(r, sellerId, customerId, deliverySpeed, productId) ==
    /\ CanStart(r)
    /\ callCount' = callCount + 1
    /\ LET req == [IdleReq EXCEPT !.op = "ccs",
                                  !.args = [sellerId |-> sellerId,
                                            customerId |-> customerId,
                                            deliverySpeed |-> deliverySpeed,
                                            productId |-> productId]]
           g == CacheGet(cache, calculationKey(sellerId, customerId,
                                               deliverySpeed, productId), now)
       IN  Apply(r,
              IF Truthy(g.value)
              THEN Step([req EXCEPT
                           !.nwCached = TRUE, !.scCached = TRUE,
                           !.nwSince = <<Since(OwnKeyOfComplete(req))>>,
                           !.scSince = <<Since(OwnKeyOfComplete(req))>>],
                        g.cache, 1, 0, <<Return(g.value)>>)
              ELSE Counted(FnwEnter(req, g.cache, now), 0, 1))

\* Lines 415-421: findNearestWarehouse resolved; calculateShippingCharge is
\* called with the warehouse it returned.
CcsAfterNearest(r) ==
    /\ reqs[r].pc = "ccs_await_fnw"
    /\ Apply(r, CscEnter(reqs[r], reqs[r].nw[1].warehouseId, cache, now))
    /\ UNCHANGED callCount

\* Lines 423-439: calculateShippingCharge resolved; merge, cache, return.
CcsAfterCharge(r) ==
    /\ reqs[r].pc = "ccs_await_csc"
    /\ LET req == reqs[r]
           result == Merge(req.nw[1], req.sc[1])
           key == calculationKey(req.args.sellerId, req.args.customerId,
                                 req.args.deliverySpeed, req.args.productId)
       IN  Apply(r, Step(req, CacheSet(cache, key, result, Passed(CalculationTTL), now),
                         0, 0, <<Return(result)>>))
    /\ UNCHANGED callCount

\* Time passes, one and a half charge TTLs at a time.
Elapse ==
    /\ now < MaxSteps * (ChargeTTL + ChargeTTL \div 2)
    /\ now' = now + ChargeTTL + ChargeTTL \div 2
    /\ ret' = NoRet
    /\ UNCHANGED <<cache, hits, misses, warehouses, reqs, callCount,
                   asyncVars, histVars, pricingVars>>

SellerIds == {"s1", "s2", "s9"}
WarehouseIds == {"w1", "w5", "w9"}
ChargeArgs ==
    { <<"c1", "standard", "">>, <<"c1", "express", "p1">>, <<"c1", "express", "p9">>,
      <<"c1", "overnight", "">>, <<"c3", "standard", "">>, <<"c9", "standard", "">> }

\* Calls are made one after the other by call slot 1, with every seller or
\* warehouse id for one set of remaining arguments and with every set of
\* remaining arguments for the seller and the warehouse that exist.
Sequential == {1}
PlainArgs == <<"c1", "standard", "">>
ChargeCalls ==
    { x \in WarehouseIds \X ChargeArgs : x[1] = "w1" \/ x[2] = PlainArgs }
CompleteCalls ==
    { x \in SellerIds \X ChargeArgs : x[1] = "s1" \/ x[2] = PlainArgs }

ServiceNext ==
    \/ \E r \in Sequential, s \in SellerIds : StartFindNearestWarehouse(r, s)
    \/ \E r \in Sequential, e \in BOOLEAN : FnwSellerFetched(r, e)
    \/ \E r \in Sequential, e \in BOOLEAN : FnwWarehousesFetched(r, e)
    \/ \E r \in Sequential, x \in ChargeCalls :
          StartCalculateShippingCharge(r, x[1], x[2][1], x[2][2], x[2][3])
    \/ \E r \in Sequential, e \in BOOLEAN : CscWarehouseFetched(r, e)
    \/ \E r \in Sequential, e \in BOOLEAN : CscCustomerFetched(r, e)
    \/ \E r \in Sequential, e \in BOOLEAN : CscSpeedFetched(r, e)
    \/ \E r \in Sequential, e \in BOOLEAN : CscProductFetched(r, e)
    \/ \E r \in Sequential, x \in CompleteCalls :
          StartCalculateCompleteShipping(r, x[1], x[2][1], x[2][2], x[2][3])
    \/ \E r \in Sequential : CcsAfterNearest(r)
    \/ \E r \in Sequential : CcsAfterCharge(r)
    \/ Elapse

ServiceInit ==
    /\ warehouses \in WarehouseTables
    /\ reqs = [r \in ReqIds |-> IdleReq]
    /\ callCount = 0
    /\ ret = NoRet
    /\ CacheFresh
    /\ PricingIdle

SpecService == ServiceInit /\ [][ServiceNext]_vars

----------------------------------------------------------------------------
(* Properties of the three service operations *)

Returned(op) == ret # NoRet /\ ret.op = op

\* A call that left before its first await answered from the cache.
Missed(rt) == rt.req.pc # "idle"

\* The distance the code computes between a seller and a warehouse row.
SellerDistance(seller, w) ==
    calculateDistance(seller.latitude, seller.longitude,
                      w.latitude, w.longitude).distance

\* v is the nearest-warehouse result for the seller over the rows the
\* active-warehouse query returned: a row of the query, no row nearer, no
\* earlier row as near.
NearestAmong(v, seller, rows) ==
    \E i \in 1..Len(rows) :
        /\ rows[i].id = v.warehouseId
        /\ v.warehouseName = rows[i].name
        /\ v.warehouseLocation = [lat |-> rows[i].latitude, long |-> rows[i].longitude]
        /\ v.distance_km = RoundKm2(SellerDistance(seller, rows[i]))
        /\ \A j \in 1..Len(rows) :
              SellerDistance(seller, rows[i]) <= SellerDistance(seller, rows[j])
        /\ \A j \in 1..(i - 1) :
              SellerDistance(seller, rows[j]) # SellerDistance(seller, rows[i])

NeverInactive(v) ==
    \A k \in 1..Len(warehouses) :
        warehouses[k].id = v.warehouseId => warehouses[k].is_active

\* C3: when findNearestWarehouse succeeds on a cache miss, the warehouse it
\* returns is a row of the active-warehouse query, no active warehouse is
\* nearer to the seller, no row before it in the store's order is as near,
\* and it is not an inactive warehouse.
C3_NearestActiveFirstOnTies ==
    (Returned("fnw") /\ ret.outcome.ok /\ Missed(ret)) =>
        /\ NearestAmong(ret.outcome.value, Sellers[ret.req.args.sellerId],
                        ActiveWarehouses(warehouses))
        /\ NeverInactive(ret.outcome.value)

\* Two active warehouses equally near, a nearer inactive one before them.
C3_Witness ==
    /\ Returned("fnw") /\ ret.outcome.ok /\ Missed(ret)
    /\ warehouses = <<W3, W2, W1, W4>>
    /\ ret.outcome.value.warehouseId = "w2"

\* C5: on a cache miss calculateCompleteShipping returns the merge of what
\* findNearestWarehouse(sellerId) returned (id, location, name) and what
\* calculateShippingCharge returned for that warehouse id and the same customer,
\* speed and product (charge, mode, distance, weight, breakdown), and the
\* merged result is stored under the calculation key for 120000 ms.
C5_CompleteIsMergeOfSubOperations ==
    (Returned("ccs") /\ ret.outcome.ok /\ Missed(ret)) =>
        LET v == ret.outcome.value
            a == ret.req.args
            nw == ret.req.nw[1]
            sc == ret.req.sc[1]
            chargeKey == shippingChargeKey(nw.warehouseId, a.customerId,
                                           a.deliverySpeed, a.productId)
            key == calculationKey(a.sellerId, a.customerId, a.deliverySpeed,
                                  a.productId)
        IN  /\ v.nearestWarehouse = [warehouseId |-> nw.warehouseId,
                                     warehouseLocation |-> nw.warehouseLocation,
                                     warehouseName |-> nw.warehouseName]
            /\ v.shippingCharge = sc.shippingCharge
            /\ v.transportMode = sc.transportMode
            /\ v.distance_km = sc.distance_km
            /\ v.weight_kg = sc.weight_kg
            /\ v.breakdown = sc.breakdown
            /\ ret.req.warehouseId = nw.warehouseId
            /\ chargeKey \in DOMAIN cache /\ cache[chargeKey].value = sc
            /\ key \in DOMAIN cache
            /\ cache[key] = [value |-> v, expiresAt |-> now + CalculationTTL]

C5_Witness ==
    /\ Returned("ccs") /\ ret.outcome.ok /\ Missed(ret)
    /\ ~ret.req.nwCached /\ ~ret.req.scCached
    /\ ret.req.args.productId = "p1"
    /\ ret.outcome.value.distance_km # ret.req.nw[1].distance_km

\* The charge result a call computed itself (not one read from the cache).
ComputedCharge ==
    /\ ret # NoRet /\ ret.op \in {"csc", "ccs"}
    /\ ret.req.deliveryConfig # <<>>

OwnKey(req) ==
    CASE req.op = "fnw" -> nearestWarehouseKey(req.args.sellerId)
      [] req.op = "csc" -> shippingChargeKey(req.warehouseId, req.args.customerId,
                                             req.args.deliverySpeed, req.args.productId)
      [] req.op = "ccs" -> calculationKey(req.args.sellerId, req.args.customerId,
                                          req.args.deliverySpeed, req.args.productId)

\* The step stores something new under key k.
Written(k) ==
    k \in DOMAIN cache' /\ (k \notin DOMAIN cache \/ cache'[k] # cache[k])

\* The results completed by the step, each with the key of its operation:
\* the result a call returns after computing it, and the result a
\* sub-operation of calculateCompleteShipping hands over after computing it.
CompletedInStep ==
    (IF ret' # NoRet /\ ret'.outcome.ok /\ Missed(ret')
     THEN {<<OwnKey(ret'.req), ret'.outcome.value>>} ELSE {})
    \cup
    {<<nearestWarehouseKey(reqs'[r].args.sellerId), reqs'[r].nw[1]>> :
        r \in {q \in ReqIds : reqs[q].nw = <<>> /\ reqs'[q].nw # <<>>
                              /\ ~reqs'[q].nwCached}}
    \cup
    {<<shippingChargeKey(reqs'[r].warehouseId, reqs'[r].args.customerId,
                         reqs'[r].args.deliverySpeed, reqs'[r].args.productId),
       reqs'[r].sc[1]>> :
        r \in {q \in ReqIds : reqs[q].sc = <<>> /\ reqs'[q].sc # <<>>
                              /\ ~reqs'[q].scCached}}

\* C7: no partial result is cached: every step that stores an entry stores,
\* under the key of an operation, the result that operation completed in
\* that very step; a step in which a call fails stores nothing.
C7_OnlyCompleteResultsCached ==
    [][ /\ \A k \in DOMAIN cache' :
              Written(k) => \E kv \in CompletedInStep :
                                kv[1] = k /\ cache'[k].value = kv[2]
        /\ (ret' # NoRet /\ ~ret'.outcome.ok) => \A k \in DOMAIN cache' : ~Written(k)
      ]_vars

\* calculateCompleteShipping failed after its nearest-warehouse step had
\* completed and been cached: nothing is stored under the calculation key.
C7_Witness ==
    /\ Returned("ccs") /\ ~ret.outcome.ok
    /\ ret.req.nw # <<>> /\ ~ret.req.nwCached
    /\ nearestWarehouseKey(ret.req.args.sellerId) \in DOMAIN cache
    /\ OwnKey(ret.req) \notin DOMAIN cache

----------------------------------------------------------------------------
(* Error outcomes of the service operations *)

Failed(kind) == ret # NoRet /\ ~ret.outcome.ok /\ ret.outcome.error = kind

\* The call that returned ran findNearestWarehouse past its cache lookup and
\* findNearestWarehouse did not hand over a result read or computed earlier
\* in a step before the last one.
NearestEnded ==
    /\ ret # NoRet /\ Missed(ret)
    /\ \/ ret.op = "fnw"
       \/ ret.op = "ccs" /\ ret.req.nw = <<>>

\* C11: findNearestWarehouse fails with NoWarehousesFoundError exactly when
\* the seller exists with valid coordinates and the active-warehouse query
\* returns no row and no store error; the error is not ResourceNotFoundError
\* and no result is returned or cached.
C11_NoWarehousesExactlyOnEmptyActiveSet ==
    NearestEnded =>
        LET sellerId == ret.req.args.sellerId
            sellerOk == /\ sellerId \in DOMAIN Sellers
                        /\ validateCoordinates(Sellers[sellerId].latitude,
                                               Sellers[sellerId].longitude)
        IN  /\ Failed("NoWarehousesFoundError")
                <=> (/\ sellerOk
                     /\ ~ret.req.storeError
                     /\ ActiveWarehouses(warehouses) = <<>>)
            /\ Failed("NoWarehousesFoundError") =>
                 /\ ~Failed("ResourceNotFoundError")
                 /\ nearestWarehouseKey(sellerId) \notin DOMAIN cache

\* The only warehouse of the store is inactive.
C11_Witness ==
    /\ Returned("fnw") /\ Failed("NoWarehousesFoundError")
    /\ warehouses = <<W3>>
    /\ ret.req.args.sellerId = "s1"

----------------------------------------------------------------------------
(* Negative distances (SpecPricing) *)

NegativeDistance == [ok |-> FALSE, error |-> "Distance cannot be negative"]

\* C15: for every distance d < 0, selectStrategy(d) and
\* getTransportModeAndRate(d) throw "Distance cannot be negative" and return
\* no mode and no rate.
C15_NegativeDistanceRejected ==
    pricingIn.distance < 0 =>
        /\ pricingOut.strategy # NotRun => pricingOut.strategy[1] = NegativeDistance
        /\ SelectRan => SelectResult = NegativeDistance

C15_Witness ==
    /\ pricingIn.distance = -1
    /\ pricingOut.strategy = <<NegativeDistance>>
    /\ pricingOut.sel = <<NegativeDistance>>

----------------------------------------------------------------------------
(* Missing entities and invalid coordinates (SpecService) *)

\* The call that returned ran calculateShippingCharge past its cache lookup.
ChargeEnded ==
    /\ ret # NoRet /\ Missed(ret)
    /\ \/ ret.op = "csc"
       \/ ret.op = "ccs" /\ ret.req.nw # <<>> /\ ~ret.req.scCached

\* The query at which the call was suspended when it ended failed in the store.
StoreFailedAt(pc) == ret.req.pc = pc /\ ret.req.storeError

ValidRow(row) == validateCoordinates(row.latitude, row.longitude)

\* What the store holds for the ids of the call.
SellerRow == Single(Sellers, ret.req.args.sellerId)
WarehouseRow == WarehouseById(warehouses, ret.req.warehouseId)
CustomerRow == Single(Customers, ret.req.args.customerId)

\* The queries that precede the customer query and the delivery speed query
\* went through.
WarehousePassed ==
    WarehouseRow # <<>> /\ ValidRow(WarehouseRow[1]) /\ ~StoreFailedAt("csc_warehouse")
CustomerPassed ==
    /\ WarehousePassed
    /\ CustomerRow # <<>> /\ ValidRow(CustomerRow[1]) /\ ~StoreFailedAt("csc_customer")

\* C12: when the seller (findNearestWarehouse), the warehouse or the customer
\* (calculateShippingCharge) named by id is not in the store, the operation
\* ends with ResourceNotFoundError carrying the resource type and the id, and
\* returns no result.  The entities are looked up in the order seller,
\* warehouse, customer, and the first missing one is reported.
C12_MissingEntityIsResourceNotFound ==
    /\ (NearestEnded /\ SellerRow = <<>>) =>
          ret.outcome = Throw("ResourceNotFoundError", "Seller",
                              ret.req.args.sellerId)
    /\ (ChargeEnded /\ WarehouseRow = <<>>) =>
          ret.outcome = Throw("ResourceNotFoundError", "Warehouse",
                              ret.req.warehouseId)
    /\ (ChargeEnded /\ WarehousePassed /\ CustomerRow = <<>>) =>
          ret.outcome = Throw("ResourceNotFoundError", "Customer",
                              ret.req.args.customerId)

C12_Witness ==
    /\ Returned("csc")
    /\ ret.req.warehouseId = "w1"
    /\ ret.req.args.customerId = "c9"
    /\ ret.outcome = Throw("ResourceNotFoundError", "Customer", "c9")

\* C13: whenever an entity resolved by an operation has a latitude outside
\* [-90, 90] or a longitude outside [-180, 180] - the seller, an active
\* warehouse scanned by findNearestWarehouse, the warehouse fetched by id, the
\* customer - the operation fails with UnsupportedLocationError.
C13_InvalidCoordinatesAreUnsupportedLocation ==
    /\ (NearestEnded /\ SellerRow # <<>> /\ ~StoreFailedAt("fnw_seller")
          /\ ~ValidRow(SellerRow[1]))
          => Failed("UnsupportedLocationError")
    /\ (NearestEnded /\ SellerRow # <<>> /\ ~StoreFailedAt("fnw_seller")
          /\ ValidRow(SellerRow[1]) /\ ~StoreFailedAt("fnw_warehouses")
          /\ \E i \in 1..Len(ActiveWarehouses(warehouses)) :
                ~ValidRow(ActiveWarehouses(warehouses)[i]))
          => Failed("UnsupportedLocationError")
    /\ (ChargeEnded /\ WarehouseRow # <<>> /\ ~StoreFailedAt("csc_warehouse")
          /\ ~ValidRow(WarehouseRow[1]))
          => Failed("UnsupportedLocationError")
    /\ (ChargeEnded /\ WarehousePassed /\ CustomerRow # <<>>
          /\ ~StoreFailedAt("csc_customer") /\ ~ValidRow(CustomerRow[1]))
          => Failed("UnsupportedLocationError")

\* The same without the warehouses scanned by findNearestWarehouse: the
\* entities fetched by id are validated before use.
FetchedByIdValidated ==
    /\ (NearestEnded /\ SellerRow # <<>> /\ ~StoreFailedAt("fnw_seller")
          /\ ~ValidRow(SellerRow[1]))
          => Failed("UnsupportedLocationError")
    /\ (ChargeEnded /\ WarehouseRow # <<>> /\ ~StoreFailedAt("csc_warehouse")
          /\ ~ValidRow(WarehouseRow[1]))
          => Failed("UnsupportedLocationError")
    /\ (ChargeEnded /\ WarehousePassed /\ CustomerRow # <<>>
          /\ ~StoreFailedAt("csc_customer") /\ ~ValidRow(CustomerRow[1]))
          => Failed("UnsupportedLocationError")

\* An active warehouse with an invalid latitude was scanned.
ScannedInvalidWarehouse ==
    /\ Returned("fnw") /\ Missed(ret)
    /\ warehouses = <<W1, W5>>
    /\ ret.req.args.sellerId = "s1"
    /\ ~ret.req.storeError
    /\ Failed("Error")

\* C14: when no delivery speed record exists for the requested speed type,
\* calculateShippingCharge fails with
\* ResourceNotFoundError("DeliverySpeedConfig", speedType).
C14_MissingSpeedConfigIsResourceNotFound ==
    (/\ ChargeEnded /\ CustomerPassed
     /\ ret.req.args.deliverySpeed \notin DOMAIN DeliverySpeeds)
        => ret.outcome = Throw("ResourceNotFoundError", "DeliverySpeedConfig",
                               ret.req.args.deliverySpeed)

\* What the code does for a speed type without a record: a plain Error.
MissingSpeedConfigIsPlainError ==
    (/\ ChargeEnded /\ CustomerPassed
     /\ ret.req.args.deliverySpeed \notin DOMAIN DeliverySpeeds)
        => Failed("Error")

----------------------------------------------------------------------------
(* CacheKeyBuilder and deletePattern (SpecKeys) *)

\* String.prototype.includes
Includes(str, pattern) ==
    \E i \in 1..(Len(str) - Len(pattern) + 1) :
        SubSeq(str, i, i + Len(pattern) - 1) = pattern

entityKey(entityType, entityId) == "entity:" \o entityType \o ":" \o entityId

\* deletePattern(pattern): the map afterwards and the count returned.
CacheDeletePattern(c, pattern) ==
    LET gone == {k \in DOMAIN c : Includes(k, pattern)}
    IN  [value |-> Cardinality(gone), cache |-> [k \in DOMAIN c \ gone |-> c[k]]]

MaxEntries == 3

\* Identifiers are arbitrary strings.
PlainIds == {"s1", "c1"}
Ids == PlainIds \cup {"calculation:7", "entity:w"}
EntityTypes == {"seller", "calculation"}

\* The keys the builder makes, each with the operation it was built for.
Built(operation, key) == [operation |-> operation, key |-> key]

BuiltKeys ==
    {Built("nearest_warehouse", nearestWarehouseKey(i)) : i \in Ids}
    \cup {Built("shipping_charge", shippingChargeKey("w1", i, "standard", "")) : i \in Ids}
    \cup {Built("shipping_charge", shippingChargeKey("w1", "c1", "express", "p1"))}
    \cup {Built("calculation", calculationKey(i, "c1", "standard", "")) : i \in Ids}
    \cup {Built("calculation", calculationKey("s1", "c1", "express", "p1"))}
    \cup {Built("entity", entityKey(t, "s1")) : t \in EntityTypes}

Namespaces == {"nearest_warehouse", "shipping_charge", "calculation", "entity"}

\* The namespace prefix of an operation.
Prefix(operation) == operation \o ":"

\* cache.set(key, value) for a key of the builder; the value names the
\* operation the key was built for.
SetBuilt(b) ==
    /\ b.key \notin DOMAIN cache => Cardinality(DOMAIN cache) < MaxEntries
    /\ cache' = CacheSet(cache, b.key, [type |-> "object", operation |-> b.operation],
                         Omitted, now)
    /\ obs' = [op |-> "set", key |-> b.key]
    /\ UNCHANGED <<hits, misses, now, stored, asyncVars, pricingVars, serviceVars>>

DeletePattern(pattern) ==
    /\ LET r == CacheDeletePattern(cache, pattern)
       IN  /\ cache' = r.cache
           /\ obs' = [op |-> "deletePattern", key |-> pattern, value |-> r.value]
    /\ stored' = [k \in DOMAIN stored |->
                     IF Includes(k, pattern) THEN <<>> ELSE stored[k]]
    /\ UNCHANGED <<hits, misses, now, asyncVars, pricingVars, serviceVars>>

KeysNext ==
    \/ \E b \in BuiltKeys : SetBuilt(b)
    \/ \E n \in Namespaces : DeletePattern(Prefix(n))

SpecKeys == CacheInit /\ [][KeysNext]_vars

\* The entries of the other operations are where they were.
OthersKept(operation) ==
    \A k \in DOMAIN cache :
        cache[k].value.operation # operation
            => (k \in DOMAIN cache' /\ cache'[k] = cache[k])

\* C16: deletePattern called with the namespace prefix of one operation
\* removes only keys built for that operation and leaves every key of every
\* other operation in the cache, whatever identifier strings the keys were
\* built from.
C16_PatternRemovesOnlyOwnNamespace ==
    [][ \A n \in Namespaces :
          (obs'.op = "deletePattern" /\ obs'.key = Prefix(n))
              => OthersKept(n) ]_vars

\* The same for keys that do not hold another namespace's prefix inside an
\* identifier or an entity type.
BuiltFromPlain(k) ==
    \A n \in Namespaces :
        Includes(k, Prefix(n)) => SubSeq(k, 1, Len(n) + 1) = Prefix(n)

PatternSafeForPlainKeys ==
    [][ \A n \in Namespaces :
          (obs'.op = "deletePattern" /\ obs'.key = Prefix(n))
              => \A k \in DOMAIN cache :
                    (cache[k].value.operation # n /\ BuiltFromPlain(k))
                        => (k \in DOMAIN cache' /\ cache'[k] = cache[k]) ]_vars

----------------------------------------------------------------------------
(* Statistics (SpecStats): every cache operation on one key, getOrSet       *)
(* included                                                                 *)

\* getStats() called by a client.
Stats ==
    /\ obs' = [op |-> "getStats", key |-> "", value |-> GetStats(cache, hits, misses)]
    /\ UNCHANGED <<cacheVars, stored, asyncVars, pricingVars, serviceVars>>

\* One getOrSet call; time passes by a whole default TTL, once.
StatsCalls == {1}
StatsTTLs == {Omitted, Passed(1)}
StatsPatterns == {"k", "calculation:"}

StatsNext ==
    \/ \E k \in AsyncKeys, v \in CacheValues, t \in StatsTTLs : Set(k, v, t)
    \/ \E k \in AsyncKeys : Get(k)
    \/ \E k \in AsyncKeys : Has(k)
    \/ \E k \in AsyncKeys : Delete(k)
    \/ \E p \in StatsPatterns : DeletePattern(p)
    \/ Clear
    \/ Cleanup
    \/ ResetStats
    \/ Stats
    \/ Tick(defaultTTL)
    \/ \E c \in StatsCalls, k \in AsyncKeys, t \in StatsTTLs : GetOrSetStart(c, k, t)
    \/ \E c \in StatsCalls, v \in CacheValues : FactoryResolve(c, v)
    \/ \E c \in StatsCalls : FactoryReject(c)
    \/ GetOrSetResume

SpecStats == CacheInit /\ [][StatsNext]_vars

\* The step is a lookup: get, or the get inside getOrSet.
LookupStep == obs'.op \in {"get", "getOrSet"}

\* A lookup adds one to hits when the key holds an unexpired entry and one
\* to misses otherwise.
LookupCounted ==
    IF Holds(cache, obs'.key, now)
    THEN hits' = hits + 1 /\ misses' = misses
    ELSE hits' = hits /\ misses' = misses + 1

\* C17: hits and misses count the lookups since the most recent
\* resetStats(): every get, the one inside getOrSet included, adds one to hits
\* when it returns a stored unexpired value and one to misses otherwise, and
\* no operation other than get and resetStats changes either counter.
C17_CountersCountLookupsSinceReset ==
    [][ IF LookupStep THEN LookupCounted
        ELSE IF obs'.op = "resetStats" THEN hits' = 0 /\ misses' = 0
        ELSE hits' = hits /\ misses' = misses ]_vars

\* The same with clear() counted among the operations that reset the
\* counters.
CountersCountLookupsSinceResetOrClear ==
    [][ IF LookupStep THEN LookupCounted
        ELSE IF obs'.op \in {"resetStats", "clear"} THEN hits' = 0 /\ misses' = 0
        ELSE hits' = hits /\ misses' = misses ]_vars

\* C18: getStats() returns hitRate = hits / (hits + misses) when
\* hits + misses > 0 and hitRate = 0 when no lookup has been counted, so
\* 0 <= hitRate <= 1 always.
C18_HitRateIsHitsOverLookups ==
    obs.op = "getStats" =>
        LET st == obs.value
            num == st.hitRate[1]
            den == st.hitRate[2]
        IN  /\ st.hits = hits /\ st.misses = misses
            /\ den > 0
            /\ hits + misses > 0 => num * (hits + misses) = hits * den
            /\ hits + misses = 0 => num = 0
            /\ 0 <= num /\ num <= den

C18_Witness ==
    /\ obs.op = "getStats"
    /\ hits = 1 /\ misses = 1
    /\ obs.value.hitRate = <<1, 2>>

----------------------------------------------------------------------------
(* The sweep (SpecCache) *)

\* C19: cleanup() removes exactly the entries whose expiry time is strictly
\* before the current time, returns the number of entries it removed, and
\* leaves every unexpired entry (key, value, expiry) and the hit and miss
\* counters unchanged.
C19_CleanupRemovesExactlyTheExpired ==
    [][ obs'.op = "cleanup" =>
          /\ DOMAIN cache' = {k \in DOMAIN cache : ~(cache[k].expiresAt < now)}
          /\ \A k \in DOMAIN cache' : cache'[k] = cache[k]
          /\ obs'.value = Cardinality(DOMAIN cache \ DOMAIN cache')
          /\ hits' = hits /\ misses' = misses ]_vars

\* A sweep that removed an expired entry and kept an unexpired one, after
\* lookups had been counted.
C19_Witness ==
    /\ obs.op = "cleanup"
    /\ obs.value = 1
    /\ DOMAIN cache # {}
    /\ hits + misses > 0

----------------------------------------------------------------------------
(* The periodic sweep (SpecSweep): the constructor's                        *)
(* setInterval(() => this.cleanup(), 60000), the singleton built at time 0  *)

SweepInterval == 60000
MaxSweeps == 7

SweepDue == now > 0 /\ now % SweepInterval = 0

\* The timer fires: cleanup() runs at a multiple of the interval.
Sweep ==
    /\ SweepDue
    /\ LET r == CacheCleanup(cache, now)
       IN  /\ cache' = r.cache
           /\ obs' = [op |-> "cleanup", key |-> "", value |-> r.value]
    /\ UNCHANGED <<hits, misses, now, stored, asyncVars, pricingVars, serviceVars>>

\* Time passes to the next instant of interest: one millisecond after a
\* multiple of the interval, one millisecond before the next, the next.
\* It does not pass a multiple of the interval before the timer has fired.
Advance ==
    /\ now < MaxSweeps * SweepInterval
    /\ SweepDue => obs.op = "cleanup"
    /\ now' = IF now % SweepInterval = 1 THEN now + SweepInterval - 2 ELSE now + 1
    /\ obs' = NoObs
    /\ UNCHANGED <<cache, hits, misses, stored, asyncVars, pricingVars, serviceVars>>

SweepNext ==
    \/ \E k \in AsyncKeys, t \in TTLArgs : Set(k, Str("a"), t)
    \/ \E k \in AsyncKeys : Delete(k)
    \/ Sweep
    \/ Advance

SpecSweep == CacheInit /\ [][SweepNext]_vars

\* The entry of the last set of key k is in the map later than `life`
\* milliseconds after the set plus one interval, or still there once the
\* sweep of that instant has run.
Outlives(k, life) ==
    LET h == stored[k][1]
    IN  /\ k \in DOMAIN cache
        /\ \/ now > h.at + life + SweepInterval
           \/ now = h.at + life + SweepInterval /\ obs.op = "cleanup"

\* C20: an entry set with ttl T that is not overwritten (nor read) is gone
\* from the map no later than T + 60000 ms after it was set, the sweep
\* running every 60000 ms.
C20_SweptWithinTtlPlusInterval ==
    \A k \in AsyncKeys :
        stored[k] # <<>> =>
            ~Outlives(k, IF stored[k][1].ttl = Omitted THEN defaultTTL
                         ELSE stored[k][1].ttl[1])

\* The same with the ttl the code gives the entry: the default for a ttl of 0.
SweptWithinEffectiveTtlPlusInterval ==
    \A k \in AsyncKeys :
        stored[k] # <<>> => ~Outlives(k, EffectiveTTL(stored[k][1].ttl))

\* An entry set with ttl 1 one millisecond before a sweep is removed by the
\* next sweep, one interval later.
SweptAtTheBound ==
    /\ stored["k1"] # <<>>
    /\ stored["k1"][1].ttl = Passed(1)
    /\ now = stored["k1"][1].at + 1 + SweepInterval
    /\ obs.op = "cleanup" /\ obs.value = 1
    /\ "k1" \notin DOMAIN cache

-----------------------------------------------------------------------------
\* The nearest-warehouse endpoint (nearest-warehouse/index.ts).

\* error.statusCode of the AppError classes the service throws.
statusCode(outcome) ==
    CASE outcome.error = "ResourceNotFoundError"    -> 404
      [] outcome.error = "NoWarehousesFoundError"   -> 503
      [] outcome.error = "UnsupportedLocationError" -> 422

AppErrors ==
    {"ResourceNotFoundError", "NoWarehousesFoundError", "UnsupportedLocationError"}

\* error.message of what findNearestWarehouse and the calculators throw.
Message(outcome) ==
    CASE outcome.error = "ResourceNotFoundError" ->
             outcome.resource \o " not found: " \o outcome.id
      [] outcome.error = "NoWarehousesFoundError" ->
             "No active warehouses found in the system"
      [] outcome.error = "UnsupportedLocationError" ->
             "Invalid " \o outcome.resource \o " coordinates: latitude, longitude"
      [] outcome.error = "Error" /\ outcome.resource = "warehouses" ->
             "Database error fetching warehouses: "
      [] outcome.error = "Error" /\ outcome.resource = "coordinates" ->
             "Invalid coordinates provided"
      [] outcome.error = "Error" /\ outcome.resource = "DeliverySpeedConfig" ->
             "Delivery speed configuration not found: " \o outcome.id
      [] OTHER -> "Could not determine nearest warehouse"

\* The catch block: the status is read off the message text alone.
CatchStatus(outcome) ==
    IF Includes(Message(outcome), "not found") THEN 404 ELSE 500

\* The status of the response to a request whose sellerId passed validation:
\* a Response built without a status is a 200.
NearestWarehouseStatus(outcome) ==
    IF outcome.ok THEN 200 ELSE CatchStatus(outcome)

\* A direct findNearestWarehouse call, as the endpoint makes it, threw one of
\* the service's AppError classes.
NearestThrewAppError ==
    Returned("fnw") /\ ~ret.outcome.ok /\ ret.outcome.error \in AppErrors

\* C21: the nearest-warehouse endpoint answers with the statusCode of the
\* AppError that findNearestWarehouse threw: 404 for a missing seller, 503
\* when there is no active warehouse, 422 for invalid seller coordinates.
C21_ResponseStatusIsAppErrorStatusCode ==
    NearestThrewAppError
        => NearestWarehouseStatus(ret.outcome) = statusCode(ret.outcome)

\* What the endpoint does: only the missing seller keeps its status; every
\* other failure of the service is answered 500, every result 200.
ResponseStatusFromMessage ==
    Returned("fnw") =>
        NearestWarehouseStatus(ret.outcome) =
            IF ret.outcome.ok THEN 200
            ELSE IF ret.outcome.error = "ResourceNotFoundError" THEN 404
            ELSE 500

NoWarehousesAnswered500 ==
    /\ Failed("NoWarehousesFoundError") /\ Returned("fnw")
    /\ NearestWarehouseStatus(ret.outcome) = 500

-----------------------------------------------------------------------------
(* distance-calculator.ts on arbitrary numbers (SpecDistance) *)

Latitudes == {-Infinity, -901, -900, 0, 200, 900, 901, Infinity, NaN}

Longitudes == {-Infinity, -1801, -1800, Meridian, 1800, 1801, Infinity, NaN}

\* Two valid points are drawn on one meridian or both on the equator.
DistanceInputs ==
    {p \in [lat1 : Latitudes, lon1 : Longitudes, lat2 : Latitudes, lon2 : Longitudes] :
        \/ ~isValidCoordinate(p.lat1, p.lon1)
        \/ ~isValidCoordinate(p.lat2, p.lon2)
        \/ p.lon1 = p.lon2
        \/ p.lat1 = 0 /\ p.lat2 = 0}

DistanceDraw ==
    /\ pricingIn \in DistanceInputs
    /\ pricingOut = [distance |-> NotRun, rounded |-> NotRun]

\* calculateDistance(lat1, lon1, lat2, lon2)
DistanceCall ==
    /\ pricingOut.distance = NotRun
    /\ pricingOut' = [pricingOut EXCEPT !.distance =
            <<calculateDistance(pricingIn.lat1, pricingIn.lon1,
                                pricingIn.lat2, pricingIn.lon2)>>]
    /\ UNCHANGED <<pricingIn, cacheVars, asyncVars, histVars, serviceVars>>

\* calculateDistanceRounded(lat1, lon1, lat2, lon2) with the default precision
DistanceRoundedCall ==
    /\ pricingOut.rounded = NotRun
    /\ pricingOut' = [pricingOut EXCEPT !.rounded =
            LET d == calculateDistance(pricingIn.lat1, pricingIn.lon1,
                                       pricingIn.lat2, pricingIn.lon2)
            IN  <<IF d.ok THEN [ok |-> TRUE, distance |-> RoundKm2(d.distance)]
                  ELSE d>>]
    /\ UNCHANGED <<pricingIn, cacheVars, asyncVars, histVars, serviceVars>>

DistanceNext ==
    \/ DistanceCall
    \/ DistanceRoundedCall

DistanceInit ==
    /\ DistanceDraw
    /\ CacheFresh
    /\ ServiceIdle

SpecDistance == DistanceInit /\ [][DistanceNext]_vars

DistanceRan == pricingOut.distance # NotRun
DistanceResult == pricingOut.distance[1]

NotFinite(x) == x = Infinity \/ x = -Infinity
BadLatitude(x) == x = NaN \/ NotFinite(x) \/ x < -900 \/ x > 900
BadLongitude(x) == x = NaN \/ NotFinite(x) \/ x < -1800 \/ x > 1800

\* C22: calculateDistance fails with the invalid-coordinate error exactly
\* when one of the two points has a latitude that is NaN, not finite or
\* outside [-90, 90] or a longitude that is NaN, not finite or outside
\* [-180, 180]; the boundary values are accepted, and a rejected value is
\* never replaced by an accepted one.
C22_FailsExactlyOnInvalidCoordinates ==
    DistanceRan =>
        /\ ~DistanceResult.ok <=>
              \/ BadLatitude(pricingIn.lat1) \/ BadLongitude(pricingIn.lon1)
              \/ BadLatitude(pricingIn.lat2) \/ BadLongitude(pricingIn.lon2)
        /\ ~DistanceResult.ok =>
              DistanceResult.message = "Invalid coordinates provided"

\* A latitude one tenth of a degree past the pole is refused although the
\* other point and both longitudes are on the boundary.
C22_Witness ==
    /\ DistanceRan /\ ~DistanceResult.ok
    /\ pricingIn.lat1 = 901 /\ pricingIn.lon1 = 1800
    /\ pricingIn.lat2 = -900 /\ pricingIn.lon2 = -1800

\* Pole to pole along the 180th meridian is accepted.
BoundaryAccepted ==
    /\ DistanceRan /\ DistanceResult.ok
    /\ pricingIn.lat1 = 900 /\ pricingIn.lon1 = 1800
    /\ pricingIn.lat2 = -900 /\ pricingIn.lon2 = 1800
    /\ DistanceResult.distance = Km(20011) + 311

\* C23: the distance from a valid point to itself is exactly 0.
C23_DistanceToSelfIsZero ==
    (/\ DistanceRan
     /\ isValidCoordinate(pricingIn.lat1, pricingIn.lon1)
     /\ pricingIn.lat2 = pricingIn.lat1 /\ pricingIn.lon2 = pricingIn.lon1)
        => DistanceResult.ok /\ DistanceResult.distance = 0

C23_Witness ==
    /\ DistanceRan /\ DistanceResult.ok /\ DistanceResult.distance = 0
    /\ pricingIn.lat1 = 200 /\ pricingIn.lon1 = Meridian
    /\ pricingIn.lat2 = 200 /\ pricingIn.lon2 = Meridian

-----------------------------------------------------------------------------
(* The store reads of one calculateCompleteShipping call (SpecService) *)

\* The call that returned was a calculateCompleteShipping call that found
\* nothing in the cache under any of its three keys.
FullMiss ==
    /\ Returned("ccs") /\ Missed(ret)
    /\ ~ret.req.nwCached /\ ~ret.req.scCached

\* The reads of the state machine, in its order.
MachineReads(productId) ==
    <<"sellers", "warehouses", "customers", "delivery_speeds">>
        \o (IF productId # "" THEN <<"products">> ELSE <<>>)

IsPrefix(s, t) == Len(s) <= Len(t) /\ s = SubSeq(t, 1, Len(s))

NoRepeat(s) == \A i, j \in 1..Len(s) : s[i] = s[j] => i = j

\* C24: on a full cache miss a calculateCompleteShipping call reads the
\* store in the order seller, active warehouses, customer, delivery speed
\* and then product (when a product id is given), each at most once; a call
\* that succeeds has made exactly these reads and a call that fails stopped
\* reading at the step that failed.
C24_ReadsFollowTheStateMachine ==
    FullMiss =>
        /\ NoRepeat(ret.req.reads)
        /\ IF ret.outcome.ok
           THEN ret.req.reads = MachineReads(ret.req.args.productId)
           ELSE IsPrefix(ret.req.reads, MachineReads(ret.req.args.productId))

\* The reads the code makes: calculateShippingCharge fetches the chosen
\* warehouse again, by id, before the customer.
CodeReads(productId) ==
    <<"sellers", "warehouses", "warehouses", "customers", "delivery_speeds">>
        \o (IF productId # "" THEN <<"products">> ELSE <<>>)

ReadsFollowTheCode ==
    FullMiss =>
        IF ret.outcome.ok
        THEN ret.req.reads = CodeReads(ret.req.args.productId)
        ELSE IsPrefix(ret.req.reads, CodeReads(ret.req.args.productId))

\* A priced call that read the warehouses table twice.
WarehouseReadTwice ==
    /\ FullMiss /\ ret.outcome.ok
    /\ ret.req.reads = CodeReads("p1")

-----------------------------------------------------------------------------
(* Answers from the cache (SpecService) *)

\* The cache holds an entry under k that has not expired.
Fresh(k) == k \in DOMAIN cache /\ now <= cache[k].expiresAt

\* Call slot r starts a call in this step; the call as it stands afterwards.
Started(r) ==
    /\ reqs[r].pc = "idle" /\ callCount' = callCount + 1
    /\ reqs'[r].pc # "idle" \/ (ret' # NoRet /\ ret'.id = r)
CallAfter(r) == IF ret' # NoRet THEN ret'.req ELSE reqs'[r]

NothingWritten == \A k \in DOMAIN cache' : ~Written(k)

\* The charge key of the inner call of a calculateCompleteShipping call that
\* holds its nearest warehouse.
InnerChargeKey(req) ==
    shippingChargeKey(req.nw[1].warehouseId, req.args.customerId,
                      req.args.deliverySpeed, req.args.productId)

\* C25: an operation that finds an unexpired entry under its key returns
\* that entry, reads nothing from the store and writes nothing to the cache;
\* a calculateCompleteShipping hit runs neither sub-operation, and the
\* sub-operations answer from the cache in the same way when
\* calculateCompleteShipping calls them.
C25_HitReturnsEntryWithoutReadsOrWrites ==
    [][ \A r \in ReqIds :
          /\ (Started(r) /\ Fresh(OwnKey(CallAfter(r)))) =>
                /\ ret' # NoRet /\ ret'.id = r
                /\ ret'.outcome = Return(cache[OwnKey(ret'.req)].value)
                /\ ret'.req.reads = <<>>
                /\ ret'.req.nw = <<>> /\ ret'.req.sc = <<>>
                /\ cache' = cache
          /\ (/\ Started(r) /\ CallAfter(r).op = "ccs"
              /\ ~Fresh(OwnKey(CallAfter(r)))
              /\ Fresh(nearestWarehouseKey(CallAfter(r).args.sellerId))) =>
                /\ ret' = NoRet /\ reqs'[r].pc = "ccs_await_fnw"
                /\ reqs'[r].nw =
                     <<cache[nearestWarehouseKey(reqs'[r].args.sellerId)].value>>
                /\ reqs'[r].reads = <<>>
                /\ NothingWritten
          /\ (reqs[r].pc = "ccs_await_fnw" /\ reqs'[r] # reqs[r]
              /\ Fresh(InnerChargeKey(reqs[r]))) =>
                /\ ret' = NoRet /\ reqs'[r].pc = "ccs_await_csc"
                /\ reqs'[r].sc = <<cache[InnerChargeKey(reqs[r])].value>>
                /\ reqs'[r].reads = reqs[r].reads
                /\ cache' = cache
      ]_vars

\* A second calculateCompleteShipping call answered from the entry the first
\* one stored.
C25_Witness ==
    /\ Returned("ccs") /\ ~Missed(ret) /\ ret.outcome.ok
    /\ callCount = 2 /\ hits = 1
    /\ ret.req.reads = <<>>
    /\ Fresh(OwnKey(ret.req)) /\ cache[OwnKey(ret.req)].value = ret.outcome.value

\* calculateCompleteShipping took its nearest warehouse from the cache after
\* its own entry had expired, and read only for the charge.
NearestTakenFromCache ==
    /\ Returned("ccs") /\ ret.outcome.ok /\ ret.req.nwCached /\ ~ret.req.scCached
    /\ ret.req.reads = <<"warehouses", "customers", "delivery_speeds">>

-----------------------------------------------------------------------------
(* The band of the reported distance (SpecPricing) *)

\* The band of a distance given in 1/100 km, as documented.
BandOfReported(distance_km) ==
    IF distance_km < 100 * 100 THEN "Mini Van"
    ELSE IF distance_km < 500 * 100 THEN "Truck"
    ELSE "Aeroplane"

\* C26: the transportMode of a ShippingChargeResult is the band of its
\* distance_km: Mini Van below 100, Truck from 100 to below 500, Aeroplane
\* from 500.
C26_ModeIsBandOfReportedDistance ==
    (PriceRan /\ PriceResult.ok) =>
        PriceResult.transportMode = BandOfReported(PriceResult.distance_km)

\* What the code does: the mode is the band of the distance before rounding.
ModeIsBandOfUnroundedDistance ==
    (PriceRan /\ PriceResult.ok) =>
        /\ PriceResult.distance_km = RoundKm2(pricingIn.distance)
        /\ PriceResult.transportMode =
              (IF pricingIn.distance < Km(100) THEN "Mini Van"
               ELSE IF pricingIn.distance < Km(500) THEN "Truck"
               ELSE "Aeroplane")

\* 99.996 km is priced as a Mini Van route and reported as 100 km.
MiniVanReportedAtHundred ==
    /\ PriceRan /\ PriceResult.ok
    /\ pricingIn.distance = Km(100) - 4
    /\ PriceResult.distance_km = 100 * 100
    /\ PriceResult.transportMode = "Mini Van"

-----------------------------------------------------------------------------
(* Invalidation against calls in flight (SpecGetOrSet) *)

\* The unexpired entry under key was stored by getOrSet call c.
ServedFrom(key, c) ==
    /\ Holds(cache, key, now)
    /\ stored[key] # <<>> /\ stored[key][1].by = <<c>>
    /\ cache[key].value = stored[key][1].value
    /\ cache[key].value # Null

\* C27: an invalidation is not undone by work that began before it: when a
\* get of a key would return a value stored by a getOrSet call, the key was
\* not removed by delete between the start of that call and its store.
C27_InvalidationNotUndoneByEarlierWork ==
    \A k \in AsyncKeys, c \in CallIds :
        ServedFrom(k, c) => ~calls[c].invalidated

\* A getOrSet call whose factory began before the delete stored its value
\* after it, and the key is served again.
DeleteUndoneByEarlierCall ==
    \E c \in CallIds :
        /\ calls[c].held = <<>>
        /\ ServedFrom("k1", c) /\ calls[c].invalidated
        /\ obs.op = "resume" /\ obs.call = c

-----------------------------------------------------------------------------
(* The age of what calculateCompleteShipping returns (SpecService) *)

\* The time of the oldest store read behind the result just returned.
OldestRead ==
    IF ret.req.nwSince # <<>> /\ ret.req.scSince # <<>>
    THEN (IF ret.req.nwSince[1] < ret.req.scSince[1]
          THEN ret.req.nwSince[1] ELSE ret.req.scSince[1])
    ELSE IF ret.req.nwSince # <<>> THEN ret.req.nwSince[1]
    ELSE ret.req.scSince[1]

\* C28: a result returned by calculateCompleteShipping was computed from
\* store reads made at most 120000 ms before it is returned.
C28_CompleteResultAtMostTwoMinutesOld ==
    (Returned("ccs") /\ ret.outcome.ok) => now - OldestRead <= 120000

\* What the code gives: the nearest warehouse may have been read a whole
\* nearest-warehouse TTL before the result is computed, and the result is
\* then served for its own TTL.
CompleteResultAgeBound ==
    (Returned("ccs") /\ ret.outcome.ok)
        => now - OldestRead <= NearestTTL + CalculationTTL

\* A result computed at 180000 from the nearest warehouse read at 0.
StaleNearestInFreshResult ==
    /\ Returned("ccs") /\ ret.outcome.ok /\ Missed(ret)
    /\ ret.req.nwCached /\ ~ret.req.scCached
    /\ now = ChargeTTL + ChargeTTL \div 2
    /\ ret.req.nwSince = <<0>> /\ ret.req.scSince = <<now>>

-----------------------------------------------------------------------------
(* The expiry set stores (SpecCache) *)

\* The last step was set(key, value, ttl) or set(key, value).
JustSet == obs.op = "set" /\ stored[obs.key] # <<>> /\ stored[obs.key][1].at = now

\* C29: set stores the entry with expiry now + ttl for every ttl passed,
\* 0 included, and with expiry now + 300000 only when no ttl is passed.
C29_ExplicitTtlStoredAsGiven ==
    JustSet =>
        LET h == stored[obs.key][1]
        IN  /\ obs.key \in DOMAIN cache
            /\ cache[obs.key].value = h.value
            /\ cache[obs.key].expiresAt =
                  now + (IF h.ttl = Omitted THEN 300000 ELSE h.ttl[1])

\* What the code stores: a ttl of 0 is taken for no ttl.
ZeroTtlStoredAsDefault ==
    JustSet =>
        LET h == stored[obs.key][1]
        IN  cache[obs.key].expiresAt =
                now + (IF h.ttl = Omitted \/ h.ttl = Passed(0) THEN defaultTTL
                       ELSE h.ttl[1])

\* set('k1', 'a', 0) left an entry that expires 300000 ms later.
ZeroTtlOutlivesNow ==
    /\ JustSet /\ obs.key = "k1"
    /\ stored["k1"][1].ttl = Passed(0)
    /\ cache["k1"].expiresAt = now + defaultTTL

-----------------------------------------------------------------------------
(* The handlers' inline band selection against the selector (SpecPricing) *)

HandlerRan == pricingOut.handler # NotRun
HandlerResult == pricingOut.handler[1]

\* The fields of a response body or of a ShippingChargeResult.
Body(r) ==
    [shippingCharge |-> r.shippingCharge, transportMode |-> r.transportMode,
     distance_km |-> r.distance_km, weight_kg |-> r.weight_kg,
     breakdown |-> r.breakdown]

====
